---- MODULE Spec2Model ----
(***************************************************************************)
(* cchistory: the Source Patcher (src/core/cli-patcher.ts), the Request    *)
(* Selector and Tool Cataloguer (src/core/request-filter.ts), the Trace    *)
(* Parser (src/core/jsonl-parser.ts), the Content Normalizer               *)
(* (src/core/content-extractor.ts), the Report Formatter                   *)
(* (src/core/output-formatter.ts) and processVersion (src/index.ts).       *)
(* Texts and model identifiers are sequences of one-character strings;     *)
(* indices into a text are 0-based, as in the TypeScript source.           *)
(***************************************************************************)
EXTENDS Integers, Sequences, FiniteSets, TLC

VARIABLES
    cliContent,     \* the script text handed to patchCliVersionCheck
    patchResult,    \* outcome of the last patchCliVersionCheck call
    patchRuns,      \* number of patchCliVersionCheck calls made so far
    pairs,          \* the parsed capture: RequestResponsePair[] in capture order
    selected,       \* outcome of selectBestRequest(pairs)
    jsonlContent,   \* the capture text handed to parseJsonl
    data,           \* outcome of parseJsonl(jsonlContent)
    messageArg,     \* the message handed to extractUserMessage
    userMessage,    \* outcome of extractUserMessage(messageArg)
    bodyArg,        \* the request body handed to extractSystemPrompt
    systemPrompt,    \* outcome of extractSystemPrompt(bodyArg)
    indentInput,    \* the text first handed to indentHeaders
    indented,       \* the text after indentRuns applications of indentHeaders
    indentRuns,      \* number of indentHeaders applications so far
    toolsArg,       \* the tool list handed to filterAndSortTools
    sortedTools,     \* outcome of filterAndSortTools(toolsArg)
    outputData,     \* the OutputData handed to formatOutput
    output,          \* outcome of formatOutput(outputData)
    pc,             \* the statement processVersion is at
    customBinary,   \* whether customBinaryPath is given
    outputFile,     \* the file at outputPath: absent, or its text
    tmpDir,         \* the temporary work directory: "none", "exists" or "removed"
    cwd,            \* the process working directory: "original" or "tmp"
    cliFile,        \* the file at cliPath: absent, or its text
    logFile,        \* the capture file in .claude-trace: absent, or its text
    tracedPairs,    \* the pairs the traced run sent, by timestamp
    steps,          \* the calls processVersion has made, in order
    pending,        \* how the try block ended, for the finally block
    processResult,  \* outcome of processVersion
    versionArgs,    \* the version strings a, b, c handed to compareVersions
    comparison,     \* the results of compareVersions on (a,b), (b,a), (b,c), (a,c)
    mainPc,         \* the statement main is at
    fetchToLatest,  \* whether --latest is given
    versions,       \* the versions main processes, in order
    versionIndex,   \* the place in versions of the version being processed
    reports,        \* the versions main has reported as failed, in order
    written         \* the versions whose output file exists after their run

patcherVars == <<cliContent, patchResult, patchRuns>>
selectorVars == <<pairs, selected>>
parserVars == <<jsonlContent, data>>
extractorVars == <<messageArg, userMessage, bodyArg, systemPrompt>>
indenterVars == <<indentInput, indented, indentRuns>>
cataloguerVars == <<toolsArg, sortedTools>>
formatterVars == <<outputData, output>>
pipelineVars == <<pc, customBinary, outputFile, tmpDir, cwd, cliFile, logFile, tracedPairs, steps, pending, processResult>>

comparatorVars == <<versionArgs, comparison>>
mainVars == <<mainPc, fetchToLatest, versions, versionIndex, reports, written>>

vars ==
    <<patcherVars, selectorVars, parserVars, extractorVars, indenterVars,
      cataloguerVars, formatterVars, pipelineVars, comparatorVars, mainVars>>

\* ------------------------------------------------------------------ bounds

\* Number of chunks a script text is assembled from.
MaxChunks == 6
\* Number of times the patcher is run in a row (on its own output).
MaxPatchRuns == 2
\* Number of records in a capture.
MaxPairs == 2
\* Largest tool list of a record.
MaxTools == 2
\* Number of chunks a capture text is assembled from.
MaxCaptureChunks == 5
\* Number of blocks in a message's content and in a system-block list.
MaxBlocks == 3
\* Number of characters in a text handed to indentHeaders.
MaxTextLen == 5
\* Number of times indentHeaders is applied in a row.
MaxIndentRuns == 2
\* Number of tools in a list handed to filterAndSortTools.
MaxToolList == 3
\* Number of tools in a report.
MaxFormatTools == 2
\* Number of requests a traced run sends.
MaxTracedPairs == 2

\* ------------------------------------------------- JavaScript string helpers

Min(a, b) == IF a < b THEN a ELSE b

\* String.prototype.substring(start, end) for 0 <= start: end is clamped to
\* the length, and the result is empty when start >= end.
Substring(s, start, end) == SubSeq(s, start + 1, Min(end, Len(s)))

\* s.substring(start): from start to the end of the string.
SubstringFrom(s, start) == SubSeq(s, start + 1, Len(s))

MinOf(S) == CHOOSE x \in S : \A y \in S : x <= y

MaxOf(S) == CHOOSE x \in S : \A y \in S : y <= x

\* Whether the non-empty pat occurs in s at 0-based index j < Len(s): the
\* first character is compared before the slice is taken.
OccursAt(s, pat, j) ==
    /\ s[j + 1] = pat[1]
    /\ Substring(s, j, j + Len(pat)) = pat

\* First 0-based index >= i at which the non-empty pat occurs in s, or -1.
IndexOfFrom(s, pat, i) ==
    LET hits == {j \in i..(Len(s) - Len(pat)) : OccursAt(s, pat, j)}
    IN  IF hits = {} THEN -1 ELSE MinOf(hits)

\* String.prototype.indexOf(pat)
IndexOf(s, pat) == IndexOfFrom(s, pat, 0)

\* String.prototype.includes(pat)
Includes(s, pat) == IndexOf(s, pat) # -1

\* -------------------------------------------------------------- cli-patcher

WarningText ==
    <<"I","t"," ","l","o","o","k","s"," ","l","i","k","e"," ","y","o","u","r",
      " ","v","e","r","s","i","o","n"," ","o","f"," ","C","l","a","u","d","e",
      " ","C","o","d","e">>

FunctionToken == <<"f","u","n","c","t","i","o","n">>

\* " /* Version check disabled by patch */ }", appended to the declaration
PatchedBody ==
    <<" ","/","*"," ","V","e","r","s","i","o","n"," ","c","h","e","c","k"," ",
      "d","i","s","a","b","l","e","d"," ","b","y"," ","p","a","t","c","h"," ",
      "*","/"," ","}">>

NotFoundMessage == "Warning text not found - version check may not exist"

PatchedMessage == "Version check successfully patched"

NoFunctionError == "Could not find function declaration before warning text"

NoOpenBraceError == "Could not find opening brace after function declaration"

NoCloseBraceError == "Could not find matching closing brace"

\* A call that returned a PatchResult.
Returned(patched, content, message) ==
    [status |-> "returned", patched |-> patched, content |-> content,
     message |-> message]

\* A call that threw: no PatchResult exists.
Thrown(message) == [status |-> "thrown", message |-> message]

NoCall == [status |-> "none"]

\* A scan that accepts a "function" anywhere in the text, also after the
\* warning.
ScanForFunctionAnywhere(s, i) == IndexOf(s, FunctionToken)

\* for (let i = warningIndex; i >= 0; i--): the loop stops at the first hit
\* going down from i, the nearest "function" at or before i; -1 if none.
ScanBackForFunction(s, i) ==
    LET hits == {j \in 0..i : OccursAt(s, FunctionToken, j)}
    IN  IF hits = {} THEN -1 ELSE MaxOf(hits)

\* A scan for "{" that starts at the front of the text instead of at the
\* function token.
FindOpenBraceFromStart(s, i) ==
    LET hits == {j \in 0..(Len(s) - 1) : s[j + 1] = "{"}
    IN  IF hits = {} THEN -1 ELSE MinOf(hits)

\* for (let i = functionIndex; i < cliContent.length; i++): the loop stops at
\* the first "{" going up from i; -1 if none.
FindOpenBrace(s, i) ==
    LET hits == {j \in i..(Len(s) - 1) : s[j + 1] = "{"}
    IN  IF hits = {} THEN -1 ELSE MinOf(hits)

\* The next index >= i holding a brace, or -1: the iterations of the closing
\* brace loop in between change nothing.
NextBrace(s, i) ==
    LET hits == {j \in i..(Len(s) - 1) : s[j + 1] \in {"{", "}"}}
    IN  IF hits = {} THEN -1 ELSE MinOf(hits)

\* A scan that does not count nested "{": it stops at the first "}".
FindCloseBraceFlat(s, i, braceCount) ==
    LET hits == {j \in i..(Len(s) - 1) : s[j + 1] = "}"}
    IN  IF hits = {} THEN -1 ELSE MinOf(hits)

RECURSIVE FindCloseBrace(_, _, _)
\* for (let i = openBraceIndex + 1; ...): braceCount++ on "{", braceCount-- on
\* "}", the index at which braceCount reaches 0, or -1.
FindCloseBrace(s, i, braceCount) ==
    LET j == NextBrace(s, i)
    IN  IF j = -1 THEN -1
        ELSE IF s[j + 1] = "{" THEN FindCloseBrace(s, j + 1, braceCount + 1)
        ELSE IF braceCount - 1 = 0 THEN j
        ELSE FindCloseBrace(s, j + 1, braceCount - 1)

\* const warningIndex = cliContent.indexOf(warningText)
WarningIndex(s) == IndexOf(s, WarningText)

\* Lines 32-90: what patchCliVersionCheck does once the warning was found
\* at warningIndex.
PatchFunctionAround(s, warningIndex) ==
    LET functionIndex == ScanBackForFunction(s, warningIndex)
    IN  IF functionIndex = -1 THEN Thrown(NoFunctionError)
        ELSE
        LET openBraceIndex == FindOpenBrace(s, functionIndex)
        IN  IF openBraceIndex = -1 THEN Thrown(NoOpenBraceError)
            ELSE
            LET closeBraceIndex == FindCloseBrace(s, openBraceIndex + 1, 1)
            IN  IF closeBraceIndex = -1 THEN Thrown(NoCloseBraceError)
                ELSE
                LET functionDeclaration ==
                        Substring(s, functionIndex, openBraceIndex + 1)
                    patchedFunction == functionDeclaration \o PatchedBody
                    patchedContent ==
                        Substring(s, 0, functionIndex) \o patchedFunction
                            \o SubstringFrom(s, closeBraceIndex + 1)
                IN  Returned(TRUE, patchedContent, PatchedMessage)

\* A patcher without the early return for a missing warning: the backward
\* scan then starts at -1.
patchCliVersionCheckNoEarlyReturn(s) == PatchFunctionAround(s, WarningIndex(s))

patchCliVersionCheck(s) ==
    LET warningIndex == WarningIndex(s)
    IN  IF warningIndex = -1 THEN Returned(FALSE, s, NotFoundMessage)
        ELSE PatchFunctionAround(s, warningIndex)

\* ------------------------------------------------------ patcher state machine

\* The pieces a script text is assembled from.
Chunks == {WarningText, FunctionToken, <<"{">>, <<"}">>, <<"x">>}

RECURSIVE Concat(_)
\* The text made of the chunks cs, in order.
Concat(cs) == IF cs = <<>> THEN <<>> ELSE Head(cs) \o Concat(Tail(cs))

\* The components a specification does not exercise stay in these states.
PatcherIdle ==
    /\ cliContent = <<>>
    /\ patchResult = NoCall
    /\ patchRuns = 0

SelectorIdle ==
    /\ pairs = <<>>
    /\ selected = NoCall

ParserIdle ==
    /\ jsonlContent = <<>>
    /\ data = NoCall

ExtractorIdle ==
    /\ messageArg = <<>>
    /\ userMessage = NoCall
    /\ bodyArg = [system |-> <<>>]
    /\ systemPrompt = NoCall

IndenterIdle ==
    /\ indentInput = <<>>
    /\ indented = <<>>
    /\ indentRuns = 0

CataloguerIdle ==
    /\ toolsArg = <<>>
    /\ sortedTools = NoCall

FormatterIdle ==
    /\ outputData = <<>>
    /\ output = NoCall

PipelineIdle ==
    /\ pc = "idle"
    /\ customBinary = FALSE
    /\ outputFile = <<>>
    /\ tmpDir = "none"
    /\ cwd = "original"
    /\ cliFile = <<>>
    /\ logFile = <<>>
    /\ tracedPairs = <<>>
    /\ steps = <<>>
    /\ pending = NoCall
    /\ processResult = NoCall

ComparatorIdle ==
    /\ versionArgs = <<>>
    /\ comparison = NoCall

MainIdle ==
    /\ mainPc = "idle"
    /\ fetchToLatest = FALSE
    /\ versions = <<>>
    /\ versionIndex = 0
    /\ reports = <<>>
    /\ written = {}

PatchInit ==
    /\ \E n \in 0..MaxChunks : \E cs \in [1..n -> Chunks] :
            cliContent = Concat(cs)
    /\ patchResult = NoCall
    /\ patchRuns = 0
    /\ SelectorIdle
    /\ ParserIdle
    /\ ExtractorIdle
    /\ IndenterIdle
    /\ CataloguerIdle
    /\ FormatterIdle
    /\ PipelineIdle
    /\ ComparatorIdle
    /\ MainIdle

\* The patcher is run on the script text.
Patch ==
    /\ patchRuns = 0
    /\ patchResult' = patchCliVersionCheck(cliContent)
    /\ patchRuns' = 1
    /\ UNCHANGED <<cliContent, selectorVars, parserVars, extractorVars, indenterVars, cataloguerVars, formatterVars, pipelineVars,
                   comparatorVars, mainVars>>

\* The patcher is run again, on the content its last run returned.
Repatch ==
    /\ patchRuns > 0
    /\ patchRuns < MaxPatchRuns
    /\ patchResult.status = "returned"
    /\ cliContent' = patchResult.content
    /\ patchResult' = patchCliVersionCheck(patchResult.content)
    /\ patchRuns' = patchRuns + 1
    /\ UNCHANGED <<selectorVars, parserVars, extractorVars, indenterVars, cataloguerVars, formatterVars, pipelineVars,
                   comparatorVars, mainVars>>

PatchNext == Patch \/ Repatch

SpecPatch == PatchInit /\ [][PatchNext]_vars

\* ------------------------------------------------------------ request-filter

\* An optional property of a parsed JSON object: absent (undefined), or
\* present with a value.
Undefined == <<>>

Defined(v) == <<v>>

IsDefined(o) == Len(o) = 1

ValueOf(o) == o[1]

UpperCase ==
    <<"A","B","C","D","E","F","G","H","I","J","K","L","M",
      "N","O","P","Q","R","S","T","U","V","W","X","Y","Z">>

LowerCase ==
    <<"a","b","c","d","e","f","g","h","i","j","k","l","m",
      "n","o","p","q","r","s","t","u","v","w","x","y","z">>

\* The lower-case letter of each upper-case letter.
UpperToLower ==
    [c \in {UpperCase[k] : k \in 1..Len(UpperCase)} |->
        LowerCase[CHOOSE k \in 1..Len(UpperCase) : UpperCase[k] = c]]

\* String.prototype.toLowerCase() on the characters of model identifiers.
ToLowerCase(s) ==
    [i \in 1..Len(s) |->
        IF s[i] \in DOMAIN UpperToLower THEN UpperToLower[s[i]] ELSE s[i]]

Haiku == <<"h","a","i","k","u">>

\* pair.request?.body?.model && ...: undefined and "" are falsy.
HasModel(pair) == IsDefined(pair.model) /\ ValueOf(pair.model) # <<>>

\* A filter that compares the model identifier as written, without
\* toLowerCase().
filterNonHaikuCaseSensitive(ps) ==
    SelectSeq(ps, LAMBDA pair :
        HasModel(pair) /\ ~Includes(ValueOf(pair.model), Haiku))

filterNonHaikuRequests(ps) ==
    SelectSeq(ps, LAMBDA pair :
        HasModel(pair) /\ ~Includes(ToLowerCase(ValueOf(pair.model)), Haiku))

\* tools && Array.isArray(tools) && tools.length > 0
filterRequestsWithTools(ps) ==
    SelectSeq(ps, LAMBDA pair :
        IsDefined(pair.tools) /\ Len(ValueOf(pair.tools)) > 0)

\* (pair) => pair.request.body.system: an array is truthy in JavaScript, also
\* the empty one; only an absent system property is falsy.
HasSystem(pair) == IsDefined(pair.system)

\* pair.request.body.tools?.length || 0
ToolCount(pair) ==
    IF IsDefined(pair.tools) THEN Len(ValueOf(pair.tools)) ELSE 0

\* A comparator that orders the requests with fewer tools first.
ByToolCountAscending(a, b) == ToolCount(a) - ToolCount(b)

\* The sort's comparator: (a, b) => toolCount(b) - toolCount(a)
ByToolCountDescending(a, b) == ToolCount(b) - ToolCount(a)

RECURSIVE InsertStable(_, _)
\* x placed into the sorted sequence after every element that the comparator
\* does not order after it.
InsertStable(sorted, x) ==
    IF sorted = <<>> THEN <<x>>
    ELSE IF ByToolCountDescending(Head(sorted), x) <= 0
         THEN <<Head(sorted)>> \o InsertStable(Tail(sorted), x)
         ELSE <<x>> \o sorted

RECURSIVE SortFrom(_, _)
SortFrom(sorted, rest) ==
    IF rest = <<>> THEN sorted
    ELSE SortFrom(InsertStable(sorted, Head(rest)), Tail(rest))

\* ps.sort((a, b) => toolCount(b) - toolCount(a)): Array.prototype.sort is a
\* stable sort (ECMAScript 2019).
SortByToolCount(ps) == SortFrom(<<>>, ps)

NoRequestError == "No non-Haiku request found in the log"

\* A call that returned a pair.
ReturnedPair(pair) == [status |-> "returned", pair |-> pair]

\* filterRequestsWithTools(nonHaikuPairs).filter((pair) => pair...system)
requestsWithToolsAndSystemPrompt(nonHaikuPairs) ==
    SelectSeq(filterRequestsWithTools(nonHaikuPairs), HasSystem)

\* A selector without the fallback to the first non-Haiku request.
selectBestRequestNoFallback(ps) ==
    LET nonHaikuPairs == filterNonHaikuRequests(ps)
        candidates == requestsWithToolsAndSystemPrompt(nonHaikuPairs)
    IN  IF Len(candidates) > 0
        THEN ReturnedPair(SortByToolCount(candidates)[1])
        ELSE Thrown(NoRequestError)

selectBestRequest(ps) ==
    LET nonHaikuPairs == filterNonHaikuRequests(ps)
        candidates == requestsWithToolsAndSystemPrompt(nonHaikuPairs)
    IN  IF Len(candidates) > 0
        THEN ReturnedPair(SortByToolCount(candidates)[1])
        ELSE IF Len(nonHaikuPairs) > 0 THEN ReturnedPair(nonHaikuPairs[1])
        ELSE Thrown(NoRequestError)

\* The selection written out in processVersion of src/index.ts: the non-Haiku
\* requests with tools, whether or not they carry a system prompt.
legacySelect(logData) ==
    LET nonHaiku == filterNonHaikuRequests(logData)
        requestsWithTools == filterRequestsWithTools(nonHaiku)
    IN  IF Len(requestsWithTools) = 0
        THEN IF Len(nonHaiku) = 0 THEN Thrown(NoRequestError)
             ELSE ReturnedPair(nonHaiku[1])
        ELSE ReturnedPair(SortByToolCount(requestsWithTools)[1])

\* ----------------------------------------------------- selector state machine

ClaudeSonnet == <<"c","l","a","u","d","e","-","s","o","n","n","e","t">>

ClaudeHaiku == <<"c","l","a","u","d","e","-","h","a","i","k","u">>

ClaudeHaikuMixed ==
    <<"c","l","a","u","d","e","-","H","A","I","K","U","-","t","e","s","t">>

\* The model property of a request body: absent, empty, or an identifier.
Models ==
    {Undefined, Defined(<<>>), Defined(ClaudeSonnet), Defined(ClaudeHaiku),
     Defined(ClaudeHaikuMixed)}

\* The tools property: absent, or a list of 0..MaxTools tools, a tool being
\* named by its place in the list.
ToolLists == {Undefined} \cup {Defined([k \in 1..n |-> k]) : n \in 0..MaxTools}

\* The system property: absent, an empty list, or one text block.
SystemLists ==
    {Undefined, Defined(<<>>), Defined(<<[type |-> "text", text |-> "sys"]>>)}

Bodies == [model : Models, tools : ToolLists, system : SystemLists]

\* The pair of the i-th line of the capture: request.timestamp tells the
\* pairs of one capture apart.
PairAt(i, body) ==
    [timestamp |-> i, model |-> body.model, tools |-> body.tools,
     system |-> body.system]

SelectInit ==
    /\ \E n \in 0..MaxPairs : \E bodies \in [1..n -> Bodies] :
            pairs = [i \in 1..n |-> PairAt(i, bodies[i])]
    /\ selected = NoCall
    /\ PatcherIdle
    /\ ParserIdle
    /\ ExtractorIdle
    /\ IndenterIdle
    /\ CataloguerIdle
    /\ FormatterIdle
    /\ PipelineIdle
    /\ ComparatorIdle
    /\ MainIdle

\* const selectedRequest = selectBestRequest(data)
SelectBest ==
    /\ selected = NoCall
    /\ selected' = selectBestRequest(pairs)
    /\ UNCHANGED <<pairs, patcherVars, parserVars, extractorVars, indenterVars, cataloguerVars, formatterVars, pipelineVars,
                   comparatorVars, mainVars>>

SelectNext == SelectBest

SpecSelect == SelectInit /\ [][SelectNext]_vars

\* ------------------------------------------------ jsonl-parser: parseJsonl

\* WhiteSpace and LineTerminator code points, the ones String.prototype.trim
\* strips: the form feed stands for those that JSON does not allow.
TrimWhiteSpace == {" ", "\t", "\n", "\r", "\f"}

\* The insignificant whitespace of the JSON grammar.
JsonWhiteSpace == {" ", "\t", "\n", "\r"}

\* String.prototype.trim()
Trim(s) ==
    LET kept == {i \in 1..Len(s) : s[i] \notin TrimWhiteSpace}
    IN  IF kept = {} THEN <<>> ELSE SubSeq(s, MinOf(kept), MaxOf(kept))

RECURSIVE Split(_, _)
\* String.prototype.split(sep) for a one-character separator: the empty
\* text splits into one empty piece.
Split(s, sep) ==
    LET hits == {i \in 1..Len(s) : s[i] = sep}
    IN  IF hits = {} THEN <<s>>
        ELSE LET i == MinOf(hits)
             IN  <<SubSeq(s, 1, i - 1)>> \o Split(SubSeq(s, i + 1, Len(s)), sep)

\* The text of a pair up to the value of its timestamp: a pair is written as
\* {"t":<digit>}, the one property that tells the pairs of a capture apart.
RecordOpen == <<"{", "\"", "t", "\"", ":">>

Digits == <<"1", "2", "3">>

DigitValue(c) == CHOOSE d \in 1..Len(Digits) : Digits[d] = c

IsDigit(c) == \E d \in 1..Len(Digits) : Digits[d] = c

JsonSyntaxError == "SyntaxError"

\* A call that returned the value v.
ReturnedValue(v) == [status |-> "returned", value |-> v]

\* JSON.parse(text): whitespace between the tokens is skipped, the tokens
\* must be those of exactly one object {"t":<digit>}; anything else (a
\* truncated object, two objects, a form feed, no token at all) throws.
JsonParse(text) ==
    LET tokens == SelectSeq(text, LAMBDA c : c \notin JsonWhiteSpace)
    IN  IF /\ Len(tokens) = Len(RecordOpen) + 2
           /\ SubSeq(tokens, 1, Len(RecordOpen)) = RecordOpen
           /\ IsDigit(tokens[Len(RecordOpen) + 1])
           /\ tokens[Len(RecordOpen) + 2] = "}"
        THEN ReturnedValue([timestamp |->
                                DigitValue(tokens[Len(RecordOpen) + 1])])
        ELSE Thrown(JsonSyntaxError)

\* .map((line) => JSON.parse(line)): the first line that throws ends the
\* call, and nothing is returned.
MapJsonParse(lines) ==
    LET parsed == [i \in 1..Len(lines) |-> JsonParse(lines[i])]
        failed == {i \in 1..Len(lines) : parsed[i].status = "thrown"}
    IN  IF failed # {} THEN parsed[MinOf(failed)]
        ELSE ReturnedValue([i \in 1..Len(lines) |-> parsed[i].value])

\* A parser without .filter((line) => line.trim()).
parseJsonlKeepBlank(content) == MapJsonParse(Split(Trim(content), "\n"))

\* A best-effort parser: lines that do not decode are left out.
parseJsonlSkipBad(content) ==
    LET lines == SelectSeq(Split(Trim(content), "\n"),
                           LAMBDA line : Trim(line) # <<>>)
    IN  MapJsonParse(SelectSeq(lines,
                LAMBDA line : JsonParse(line).status = "returned"))

\* content.trim().split("\n").filter((line) => line.trim()).map(JSON.parse)
parseJsonl(content) ==
    LET lines == SelectSeq(Split(Trim(content), "\n"),
                           LAMBDA line : Trim(line) # <<>>)
    IN  MapJsonParse(lines)

\* ------------------------------------------------- parser state machine

\* The pieces a capture text is assembled from: two whole pairs, a pair in
\* two halves, a space, a form feed and the line terminator.
CaptureChunks ==
    {RecordOpen \o <<"1", "}">>, RecordOpen \o <<"2", "}">>, RecordOpen,
     <<"3", "}">>, <<" ">>, <<"\f">>, <<"\n">>}

ParseInit ==
    /\ \E n \in 0..MaxCaptureChunks : \E cs \in [1..n -> CaptureChunks] :
            jsonlContent = Concat(cs)
    /\ data = NoCall
    /\ PatcherIdle
    /\ SelectorIdle
    /\ ExtractorIdle
    /\ IndenterIdle
    /\ CataloguerIdle
    /\ FormatterIdle
    /\ PipelineIdle
    /\ ComparatorIdle
    /\ MainIdle

\* const data = parseJsonl(jsonlContent)
Parse ==
    /\ data = NoCall
    /\ data' = parseJsonl(jsonlContent)
    /\ UNCHANGED <<jsonlContent, patcherVars, selectorVars, extractorVars, indenterVars, cataloguerVars, formatterVars, pipelineVars,
                   comparatorVars, mainVars>>

ParseNext == Parse

SpecParse == ParseInit /\ [][ParseNext]_vars

\* ------------------------------------------------------- content-extractor

\* A content that is a string.
StringContent(s) == [kind |-> "string", value |-> s]

\* A content that is a list of MessageContent blocks.
ArrayContent(blocks) == [kind |-> "array", value |-> blocks]

\* A content that is neither (the test's 123), and a message without content.
NumberContent == [kind |-> "number", value |-> <<>>]

AbsentContent == [kind |-> "undefined", value |-> <<>>]

RECURSIVE Join(_, _)
\* Array.prototype.join(sep) of a list of texts.
Join(texts, sep) ==
    IF texts = <<>> THEN <<>>
    ELSE IF Len(texts) = 1 THEN texts[1]
    ELSE texts[1] \o sep \o Join(Tail(texts), sep)

\* content.filter((item) => item.type === "text")
TextItems(blocks) == SelectSeq(blocks, LAMBDA item : item.type = "text")

\* item.text || "": a missing and an empty text both give "".
TextOrEmpty(item) == IF IsDefined(item.text) THEN ValueOf(item.text) ELSE <<>>

\* An extractor that joins the texts of all the blocks, whatever their type.
extractUserMessageAllBlocks(message) ==
    IF ~IsDefined(message) THEN ReturnedValue(<<>>)
    ELSE LET content == ValueOf(message).content
         IN  IF content.kind = "string" THEN ReturnedValue(content.value)
             ELSE IF content.kind = "array"
             THEN ReturnedValue(Join(
                    [i \in 1..Len(content.value) |->
                        TextOrEmpty(content.value[i])], <<"\n">>))
             ELSE ReturnedValue(<<>>)

extractUserMessage(message) ==
    IF ~IsDefined(message) THEN ReturnedValue(<<>>)
    ELSE LET content == ValueOf(message).content
         IN  IF content.kind = "string" THEN ReturnedValue(content.value)
             ELSE IF content.kind = "array"
             THEN LET items == TextItems(content.value)
                  IN  ReturnedValue(Join(
                        [i \in 1..Len(items) |-> TextOrEmpty(items[i])],
                        <<"\n">>))
             ELSE ReturnedValue(<<>>)

\* body.system || []
SystemOrEmpty(body) == IF IsDefined(body.system) THEN ValueOf(body.system) ELSE <<>>

\* An extractor that joins the texts of all the system blocks.
extractSystemPromptAllBlocks(body) ==
    LET blocks == SystemOrEmpty(body)
    IN  ReturnedValue(Join([i \in 1..Len(blocks) |-> blocks[i].text], <<"\n">>))

extractSystemPrompt(body) ==
    LET blocks == TextItems(SystemOrEmpty(body))
    IN  ReturnedValue(Join([i \in 1..Len(blocks) |-> blocks[i].text], <<"\n">>))

\* messages.find((msg) => msg.role === "user"), then extractUserMessage
findAndExtractUserMessage(messages) ==
    LET users == {i \in 1..Len(messages) : messages[i].role = "user"}
    IN  extractUserMessage(IF users = {} THEN Undefined
                           ELSE Defined(messages[MinOf(users)]))

\* ---------------------------------------------- extractor state machines

\* The texts a block or a string content holds.
BlockTexts == {<<>>, <<"a">>, <<"b">>}

\* MessageContent: type, text?
MessageBlocks ==
    [type : {"text", "image"},
     text : {Undefined} \cup {Defined(t) : t \in BlockTexts}]

\* SystemBlock: type, text
SystemBlocks == [type : {"text", "other"}, text : BlockTexts]

StringContents ==
    {StringContent(s) : s \in BlockTexts \cup {<<"a", "\n", "b">>}}

UserMessageInit ==
    /\ \/ messageArg = Undefined
       \/ \E role \in {"user", "assistant"} :
            \/ \E c \in StringContents \cup {NumberContent, AbsentContent} :
                    messageArg = Defined([role |-> role, content |-> c])
            \/ \E n \in 0..MaxBlocks : \E blocks \in [1..n -> MessageBlocks] :
                    messageArg = Defined([role |-> role,
                                          content |-> ArrayContent(blocks)])
    /\ userMessage = NoCall
    /\ bodyArg = [system |-> <<>>]
    /\ systemPrompt = NoCall
    /\ PatcherIdle
    /\ SelectorIdle
    /\ ParserIdle
    /\ IndenterIdle
    /\ CataloguerIdle
    /\ FormatterIdle
    /\ PipelineIdle
    /\ ComparatorIdle
    /\ MainIdle

\* extractUserMessage(userMessage)
ExtractUserMessage ==
    /\ userMessage = NoCall
    /\ userMessage' = extractUserMessage(messageArg)
    /\ UNCHANGED <<messageArg, bodyArg, systemPrompt, patcherVars,
                   selectorVars, parserVars, indenterVars, cataloguerVars, formatterVars, pipelineVars,
                   comparatorVars, mainVars>>

UserMessageNext == ExtractUserMessage

SpecUserMessage == UserMessageInit /\ [][UserMessageNext]_vars

SystemPromptInit ==
    /\ \/ bodyArg = [system |-> Undefined]
       \/ \E n \in 0..MaxBlocks : \E blocks \in [1..n -> SystemBlocks] :
            bodyArg = [system |-> Defined(blocks)]
    /\ systemPrompt = NoCall
    /\ messageArg = <<>>
    /\ userMessage = NoCall
    /\ PatcherIdle
    /\ SelectorIdle
    /\ ParserIdle
    /\ IndenterIdle
    /\ CataloguerIdle
    /\ FormatterIdle
    /\ PipelineIdle
    /\ ComparatorIdle
    /\ MainIdle

\* const systemPrompt = extractSystemPrompt(request.body)
ExtractSystemPrompt ==
    /\ systemPrompt = NoCall
    /\ systemPrompt' = extractSystemPrompt(bodyArg)
    /\ UNCHANGED <<messageArg, userMessage, bodyArg, patcherVars,
                   selectorVars, parserVars, indenterVars, cataloguerVars, formatterVars, pipelineVars,
                   comparatorVars, mainVars>>

SystemPromptNext == ExtractSystemPrompt

SpecSystemPrompt == SystemPromptInit /\ [][SystemPromptNext]_vars

\* ------------------------------------------ output-formatter: indentHeaders

\* The characters the regular expression class \s matches: WhiteSpace and
\* LineTerminator, the ones trim strips.
RegexWhiteSpace == TrimWhiteSpace

\* The length of the longest run of "#" at the start of the line.
LeadingHashes(line) ==
    LET others == {i \in 1..Len(line) : line[i] # "#"}
    IN  IF others = {} THEN Len(line) ELSE MinOf(others) - 1

\* A match that asks for the "#" only: /^(#+)/.
MatchesHashes(line) == LeadingHashes(line) >= 1

\* line.match(/^(#+)(\s+)/): one or more "#" at the start of the line, then
\* at least one whitespace character.
MatchesHeader(line) ==
    LET hashes == LeadingHashes(line)
    IN  /\ hashes >= 1
        /\ Len(line) > hashes
        /\ line[hashes + 1] \in RegexWhiteSpace

\* A reindenter that takes every line starting with "#" for a header.
indentHeadersNoSpace(s) ==
    LET lines == Split(s, "\n")
    IN  Join([i \in 1..Len(lines) |->
                IF MatchesHashes(lines[i]) THEN <<"#">> \o lines[i]
                ELSE lines[i]], <<"\n">>)

\* text.split("\n").map(...).join("\n")
indentHeaders(s) ==
    LET lines == Split(s, "\n")
    IN  Join([i \in 1..Len(lines) |->
                IF MatchesHeader(lines[i]) THEN <<"#">> \o lines[i]
                ELSE lines[i]], <<"\n">>)

\* ------------------------------------------------ reindenter state machine

\* The characters a text to reindent is made of.
HeaderChars == {"#", " ", "\t", "H", "\n"}

IndentInit ==
    /\ \E n \in 0..MaxTextLen : \E cs \in [1..n -> HeaderChars] :
            indentInput = cs
    /\ indented = indentInput
    /\ indentRuns = 0
    /\ PatcherIdle
    /\ SelectorIdle
    /\ ParserIdle
    /\ ExtractorIdle
    /\ CataloguerIdle
    /\ FormatterIdle
    /\ PipelineIdle
    /\ ComparatorIdle
    /\ MainIdle

\* indentHeaders is applied to the text, or to its own result as in
\* indentHeaders(indentHeaders(tool.description)).
IndentHeaders ==
    /\ indentRuns < MaxIndentRuns
    /\ indented' = indentHeaders(indented)
    /\ indentRuns' = indentRuns + 1
    /\ UNCHANGED <<indentInput, patcherVars, selectorVars, parserVars,
                   extractorVars, cataloguerVars, formatterVars, pipelineVars,
                   comparatorVars, mainVars>>

IndentNext == IndentHeaders

SpecIndent == IndentInit /\ [][IndentNext]_vars

\* ------------------------------------------ request-filter: filterAndSortTools

McpPrefix == <<"m", "c", "p", "_", "_">>

\* tool.name.startsWith("mcp__")
StartsWithMcp(name) == Substring(name, 0, Len(McpPrefix)) = McpPrefix

\* The characters tool names are made of, in the order of their primary
\* collation weights: punctuation sorts before letters, and a letter has the
\* weight of its lower-case form.
CollationOrder == <<"_", "a", "b", "c", "m", "p">>

PrimaryWeight(c) ==
    LET lower == IF c \in DOMAIN UpperToLower THEN UpperToLower[c] ELSE c
    IN  CHOOSE w \in 1..Len(CollationOrder) : CollationOrder[w] = lower

\* The tertiary weight: a lower-case letter sorts before its upper-case form.
CaseWeight(c) == IF c \in DOMAIN UpperToLower THEN 1 ELSE 0

\* The first position where the weights of a and b differ decides; without
\* one, the shorter text sorts first; 0 when there is no difference at all.
CompareWeights(wa, wb) ==
    LET diffs == {i \in 1..Min(Len(wa), Len(wb)) : wa[i] # wb[i]}
    IN  IF diffs # {}
        THEN (IF wa[MinOf(diffs)] < wb[MinOf(diffs)] THEN -1 ELSE 1)
        ELSE IF Len(wa) < Len(wb) THEN -1
        ELSE IF Len(wa) > Len(wb) THEN 1
        ELSE 0

\* a.localeCompare(b) under the root collation: the primary weights of the
\* whole names are compared first, the case only between names that are
\* equal up to case.
LocaleCompare(a, b) ==
    LET primary == CompareWeights([i \in 1..Len(a) |-> PrimaryWeight(a[i])],
                                  [i \in 1..Len(b) |-> PrimaryWeight(b[i])])
    IN  IF primary # 0 THEN primary
        ELSE CompareWeights([i \in 1..Len(a) |-> CaseWeight(a[i])],
                            [i \in 1..Len(b) |-> CaseWeight(b[i])])

RECURSIVE InsertByName(_, _)
\* tool placed into the sorted list after every tool that the comparator
\* (a, b) => a.name.localeCompare(b.name) does not order after it.
InsertByName(sorted, x) ==
    IF sorted = <<>> THEN <<x>>
    ELSE IF LocaleCompare(Head(sorted).name, x.name) <= 0
         THEN <<Head(sorted)>> \o InsertByName(Tail(sorted), x)
         ELSE <<x>> \o sorted

RECURSIVE SortByNameFrom(_, _)
SortByNameFrom(sorted, rest) ==
    IF rest = <<>> THEN sorted
    ELSE SortByNameFrom(InsertByName(sorted, Head(rest)), Tail(rest))

\* ts.sort((a, b) => a.name.localeCompare(b.name)): a stable sort, in place.
SortByName(ts) == SortByNameFrom(<<>>, ts)

\* A call that returned the list v and left the caller's array as argument.
ReturnedList(v, argument) ==
    [status |-> "returned", value |-> v, argument |-> argument]

\* A cataloguer that sorts the caller's array in place before filtering it.
filterAndSortToolsInPlace(ts) ==
    IF ~IsDefined(ts) THEN ReturnedList(<<>>, ts)
    ELSE LET sorted == SortByName(ValueOf(ts))
         IN  ReturnedList(
                SelectSeq(sorted, LAMBDA tool : ~StartsWithMcp(tool.name)),
                Defined(sorted))

\* if (!tools) return []; filter returns a new array, which sort reorders:
\* the caller's array is not written.
filterAndSortTools(ts) ==
    IF ~IsDefined(ts) THEN ReturnedList(<<>>, ts)
    ELSE ReturnedList(
            SortByName(SelectSeq(ValueOf(ts),
                                 LAMBDA tool : ~StartsWithMcp(tool.name))),
            ts)

\* ------------------------------------------------ cataloguer state machine

ToolNames ==
    {<<"a">>, <<"b">>, <<"B">>, <<"a", "b">>, McpPrefix \o <<"a">>,
     <<"m", "c", "p", "_", "a">>}

\* input_schema: { type: "object" }
ObjectSchema == [type |-> <<"o", "b", "j", "e", "c", "t">>]

\* Tool: name, description, input_schema
Tools ==
    [name : ToolNames, description : {<<"x">>, <<"y">>},
     input_schema : {ObjectSchema}]

CatalogueInit ==
    /\ \/ toolsArg = Undefined
       \/ \E n \in 0..MaxToolList : \E ts \in [1..n -> Tools] :
            toolsArg = Defined(ts)
    /\ sortedTools = NoCall
    /\ PatcherIdle
    /\ SelectorIdle
    /\ ParserIdle
    /\ ExtractorIdle
    /\ IndenterIdle
    /\ FormatterIdle
    /\ PipelineIdle
    /\ ComparatorIdle
    /\ MainIdle

\* const tools = filterAndSortTools(request.body.tools): the outcome holds
\* the returned list and the caller's array as the call left it.
FilterAndSortTools ==
    /\ sortedTools = NoCall
    /\ sortedTools' = filterAndSortTools(toolsArg)
    /\ UNCHANGED <<toolsArg, patcherVars, selectorVars, parserVars,
                   extractorVars, indenterVars, formatterVars, pipelineVars,
                   comparatorVars, mainVars>>

CatalogueNext == FilterAndSortTools

SpecCatalogue == CatalogueInit /\ [][CatalogueNext]_vars

\* --------------------------------- output-formatter: formatTools, formatOutput

\* JSON.stringify(tool.input_schema, null, 2) for an object with the one
\* property type: the property on a line of its own, indented by two spaces.
JsonStringifyPretty(schema) ==
    <<"{", "\n", " ", " ", "\"", "t", "y", "p", "e", "\"", ":", " ", "\"">>
        \o schema.type \o <<"\"", "\n", "}">>

ToolHeading == <<"#", "#", " ">>

ToolSeparator == <<"\n", "\n", "-", "-", "-", "\n", "\n">>

\* `## ${tool.name}\n\n${indentedDescription}\n${schemaStr}`
FormatTool(tool) ==
    ToolHeading \o tool.name \o <<"\n", "\n">>
        \o indentHeaders(indentHeaders(tool.description))
        \o <<"\n">> \o JsonStringifyPretty(tool.input_schema)

\* A tools formatter that reindents the descriptions once only.
formatToolsIndentOnce(ts) ==
    Join([i \in 1..Len(ts) |->
            ToolHeading \o ts[i].name \o <<"\n", "\n">>
                \o indentHeaders(ts[i].description)
                \o <<"\n">> \o JsonStringifyPretty(ts[i].input_schema)],
         ToolSeparator)

\* A tools formatter that joins the subsections by a blank line only.
formatToolsNoRule(ts) ==
    Join([i \in 1..Len(ts) |-> FormatTool(ts[i])], <<"\n", "\n">>)

\* tools.map(...).join("\n\n---\n\n")
formatTools(ts) ==
    Join([i \in 1..Len(ts) |-> FormatTool(ts[i])], ToolSeparator)

TitlePrefix ==
    <<"#"," ","C","l","a","u","d","e"," ","C","o","d","e"," ","V","e","r",
      "s","i","o","n"," ">>

ReleaseDatePrefix ==
    <<"R","e","l","e","a","s","e"," ","D","a","t","e",":"," ">>

UserMessageHeader ==
    <<"#"," ","U","s","e","r"," ","M","e","s","s","a","g","e">>

SystemPromptHeader ==
    <<"#"," ","S","y","s","t","e","m"," ","P","r","o","m","p","t">>

ToolsHeader ==
    <<"#"," ","T","o","o","l","s">>

\* A formatter that writes the user message as it is, its headers not
\* reindented.
formatOutputUserMessageAsIs(d) ==
    ReturnedValue(
        TitlePrefix \o d.versionLabel \o <<"\n", "\n">>
        \o ReleaseDatePrefix \o d.releaseDate \o <<"\n", "\n">>
        \o UserMessageHeader \o <<"\n", "\n">>
        \o d.userMessage \o <<"\n", "\n">>
        \o SystemPromptHeader \o <<"\n", "\n">>
        \o indentHeaders(d.systemPrompt) \o <<"\n", "\n">>
        \o ToolsHeader \o <<"\n", "\n">>
        \o formatTools(d.tools) \o <<"\n">>)

\* The template literal of formatOutput.
formatOutput(d) ==
    LET toolsSection == formatTools(d.tools)
    IN  ReturnedValue(
            TitlePrefix \o d.versionLabel \o <<"\n", "\n">>
            \o ReleaseDatePrefix \o d.releaseDate \o <<"\n", "\n">>
            \o UserMessageHeader \o <<"\n", "\n">>
            \o indentHeaders(d.userMessage) \o <<"\n", "\n">>
            \o SystemPromptHeader \o <<"\n", "\n">>
            \o indentHeaders(d.systemPrompt) \o <<"\n", "\n">>
            \o ToolsHeader \o <<"\n", "\n">>
            \o toolsSection \o <<"\n">>)

\* ------------------------------------------------- formatter state machine

\* Texts with a header line, with a line that reads like a section header
\* of the report, and with a line that reads like a horizontal rule.
HeaderAndBody == <<"#", " ", "H", "\n", "b">>

RuleText == <<"-", "-", "-">>

UserMessageTexts == {<<"b">>, HeaderAndBody, ToolsHeader}

SystemPromptTexts == {<<>>, HeaderAndBody, RuleText}

DescriptionTexts ==
    {<<"b">>, HeaderAndBody, RuleText, ToolsHeader, ToolHeading \o <<"a">>}

VersionLabels == {<<"1", ".", "0">>, <<"C">>}

ReleaseDates == {<<"2", "0", "2", "4">>}

\* The tools of a report: name, description, input_schema.
FormatterTools ==
    [name : {<<"a">>, <<"b">>}, description : DescriptionTexts,
     input_schema : {ObjectSchema}]

FormatInit ==
    /\ \E label \in VersionLabels, date \in ReleaseDates,
          um \in UserMessageTexts, sp \in SystemPromptTexts :
        \E n \in 0..MaxFormatTools : \E ts \in [1..n -> FormatterTools] :
            outputData = [versionLabel |-> label, releaseDate |-> date,
                          userMessage |-> um, systemPrompt |-> sp,
                          tools |-> ts]
    /\ output = NoCall
    /\ PatcherIdle
    /\ SelectorIdle
    /\ ParserIdle
    /\ ExtractorIdle
    /\ IndenterIdle
    /\ CataloguerIdle
    /\ PipelineIdle
    /\ ComparatorIdle
    /\ MainIdle

\* const output = formatOutput({versionLabel, releaseDate, userMessage,
\* systemPrompt, tools})
FormatOutput ==
    /\ output = NoCall
    /\ output' = formatOutput(outputData)
    /\ UNCHANGED <<outputData, patcherVars, selectorVars, parserVars,
                   extractorVars, indenterVars, cataloguerVars, pipelineVars,
                   comparatorVars, mainVars>>

FormatNext == FormatOutput

SpecFormat == FormatInit /\ [][FormatNext]_vars

\* ------------------------------------------------------------ version-utils

DecimalDigits == <<"0", "1", "2", "3", "4", "5", "6", "7", "8", "9">>

RECURSIVE DecimalValue(_)
\* The number a run of decimal digits writes.
DecimalValue(ds) ==
    IF ds = <<>> THEN 0
    ELSE 10 * DecimalValue(SubSeq(ds, 1, Len(ds) - 1))
            + (CHOOSE d \in 0..9 : DecimalDigits[d + 1] = ds[Len(ds)])

\* parseInt(s, 10) of a text without leading white space or sign: the number
\* its leading digits write, and NaN when it starts with no digit.
ParseInt(s) ==
    LET stops == {i \in 1..Len(s) :
                    \A d \in 1..Len(DecimalDigits) : DecimalDigits[d] # s[i]}
        n == IF stops = {} THEN Len(s) ELSE MinOf(stops) - 1
    IN  IF n = 0 THEN "NaN" ELSE DecimalValue(SubSeq(s, 1, n))

\* version.split("."), and parseInt of the first three parts
parseVersion(version) ==
    LET parts == Split(version, ".")
    IN  [major |-> ParseInt(parts[1]),
         minor |-> ParseInt(parts[2]),
         patch |-> ParseInt(parts[3])]

\* A comparison that looks at the patch number first and the major number
\* last.
compareVersionsPatchFirst(a, b) ==
    LET va == parseVersion(a)
        vb == parseVersion(b)
    IN  IF va.patch # vb.patch THEN va.patch - vb.patch
        ELSE IF va.minor # vb.minor THEN va.minor - vb.minor
        ELSE va.major - vb.major

\* if (va.major !== vb.major) return va.major - vb.major; then minor; then
\* return va.patch - vb.patch
compareVersions(a, b) ==
    LET va == parseVersion(a)
        vb == parseVersion(b)
    IN  IF va.major # vb.major THEN va.major - vb.major
        ELSE IF va.minor # vb.minor THEN va.minor - vb.minor
        ELSE va.patch - vb.patch

\* ------------------------------------------------ comparator state machine

\* The numbers a version is made of, as written: one digit and two digits.
VersionParts == {<<"0">>, <<"9">>, <<"1", "0">>}

\* "major.minor.patch"
VersionTexts ==
    {major \o <<".">> \o minor \o <<".">> \o patch :
        major \in VersionParts, minor \in VersionParts, patch \in VersionParts}

CompareInit ==
    /\ versionArgs \in VersionTexts \X VersionTexts \X VersionTexts
    /\ comparison = NoCall
    /\ PatcherIdle
    /\ SelectorIdle
    /\ ParserIdle
    /\ ExtractorIdle
    /\ IndenterIdle
    /\ CataloguerIdle
    /\ FormatterIdle
    /\ PipelineIdle
    /\ MainIdle

\* compareVersions(a, b), (b, a), (b, c) and (a, c)
CompareVersions ==
    /\ comparison = NoCall
    /\ comparison' =
            [status |-> "returned",
             ab |-> compareVersions(versionArgs[1], versionArgs[2]),
             ba |-> compareVersions(versionArgs[2], versionArgs[1]),
             bc |-> compareVersions(versionArgs[2], versionArgs[3]),
             ac |-> compareVersions(versionArgs[1], versionArgs[3])]
    /\ UNCHANGED <<versionArgs, patcherVars, selectorVars, parserVars,
                   extractorVars, indenterVars, cataloguerVars, formatterVars,
                   pipelineVars, mainVars>>

CompareNext == CompareVersions

SpecCompare == CompareInit /\ [][CompareNext]_vars

\* ------------------------------------------------- index: processVersion

\* processVersion returned.
ReturnedVoid == [status |-> "returned"]

DownloadError == "npm pack failed"

UnpackError == "tar failed"

CliNotFoundError == "CLI file not found"

ExecError == "claude-trace failed"

NoLogError == "No JSONL log file found in .claude-trace directory"

\* The script texts of a package: one with the version check in a function,
\* one without the warning, one with the warning outside any function.
PatchableCli == FunctionToken \o <<"{">> \o WarningText \o <<"}">>

PlainCli == <<"x">>

BrokenCli == WarningText

CliTexts == {PatchableCli, PlainCli, BrokenCli}

\* The report a previous run left at outputPath.
ExistingReport == <<"o", "l", "d">>

\* The tools of the traced requests.
ToolA == [name |-> <<"a">>, description |-> <<"x">>, input_schema |-> ObjectSchema]

ToolB == [name |-> <<"b">>, description |-> <<"y">>, input_schema |-> ObjectSchema]

McpTool ==
    [name |-> McpPrefix \o <<"a">>, description |-> <<"x">>,
     input_schema |-> ObjectSchema]

\* The request bodies of a traced run: model, messages, system?, tools?
TracedBodies ==
    [model : {Defined(ClaudeSonnet), Defined(ClaudeHaiku)},
     tools : {Undefined, Defined(<<ToolA>>), Defined(<<ToolB, ToolA>>),
              Defined(<<McpTool, ToolA>>)},
     system : {Undefined, Defined(<<[type |-> "text", text |-> <<"s">>]>>)},
     messages : {<<[role |-> "user", content |-> StringContent(<<"b">>)]>>}]

\* The pair of the i-th request of the traced run.
TracedPairAt(i, body) ==
    [timestamp |-> i, model |-> body.model, tools |-> body.tools,
     system |-> body.system, messages |-> body.messages]

\* The line claude-trace writes for a pair: its JSON text, cut down to the
\* timestamp, and a newline.
CaptureLine(pair) ==
    RecordOpen \o <<Digits[pair.timestamp], "}", "\n">>

\* The capture file of a traced run: one line per pair; a run that was cut
\* short leaves the start of one more line.
CaptureText(ps, truncated) ==
    Concat([i \in 1..Len(ps) |-> CaptureLine(ps[i])])
        \o (IF truncated THEN RecordOpen ELSE <<>>)

\* JSON.parse gives back the pair whose text the line holds.
DecodedPairs(records, traced) ==
    [k \in 1..Len(records) |-> traced[records[k].timestamp]]

\* !!tools && Array.isArray(tools) && tools.length > 0
hasTools(pair) == IsDefined(pair.tools) /\ Len(ValueOf(pair.tools)) > 0

\* getVersionReleaseDate gives "Unknown" when npm view fails.
UnknownDate == <<"U", "n", "k", "n", "o", "w", "n">>

CustomBinaryDate ==
    <<"C", "u", "s", "t", "o", "m", " ", "B", "i", "n", "a", "r", "y">>

\* `Custom Binary (${outputFilename})`, and the version processed otherwise.
CustomBinaryLabel == CustomBinaryDate \o <<" ", "(", "f", ")">>

VersionLabel == <<"1", ".", "0">>

PipelineInit ==
    /\ pc = "start"
    /\ customBinary \in BOOLEAN
    /\ outputFile \in {Undefined, Defined(ExistingReport)}
    /\ tmpDir = "none"
    /\ cwd = "original"
    /\ IF customBinary THEN \E t \in CliTexts : cliFile = Defined(t)
       ELSE cliFile = Undefined
    /\ logFile = Undefined
    /\ tracedPairs = <<>>
    /\ steps = <<>>
    /\ pending = NoCall
    /\ processResult = NoCall
    /\ PatcherIdle
    /\ SelectorIdle
    /\ ParserIdle
    /\ ExtractorIdle
    /\ IndenterIdle
    /\ CataloguerIdle
    /\ FormatterIdle
    /\ ComparatorIdle
    /\ MainIdle

\* A start that does not look for the output file.
ProcessStartNoSkip ==
    /\ pc = "start"
    /\ IF customBinary
       THEN /\ pc' = "trace"
            /\ UNCHANGED <<tmpDir, steps>>
       ELSE /\ tmpDir' = "exists"
            /\ steps' = Append(steps, "createTempWorkDir")
            /\ pc' = "download"
    /\ UNCHANGED processResult
    /\ UNCHANGED <<cliContent, patchResult, patchRuns, pairs, selected,
                   jsonlContent, data, messageArg, userMessage, bodyArg,
                   systemPrompt, indentInput, indented, indentRuns, toolsArg,
                   sortedTools, outputData, output, customBinary, outputFile,
                   cwd, cliFile, logFile, tracedPairs, pending,
                   comparatorVars, mainVars>>

\* A start that creates the output file before the pipeline has run.
ProcessStartCreatesOutput ==
    /\ pc = "start"
    /\ IF IsDefined(outputFile)
       THEN /\ pc' = "returned"
            /\ processResult' = ReturnedVoid
            /\ UNCHANGED <<tmpDir, steps, outputFile>>
       ELSE /\ outputFile' = Defined(<<>>)
            /\ IF customBinary
               THEN /\ pc' = "trace"
                    /\ UNCHANGED <<tmpDir, steps, processResult>>
               ELSE /\ tmpDir' = "exists"
                    /\ steps' = Append(steps, "createTempWorkDir")
                    /\ pc' = "download"
                    /\ UNCHANGED processResult
    /\ UNCHANGED <<cliContent, patchResult, patchRuns, pairs, selected,
                   jsonlContent, data, messageArg, userMessage, bodyArg,
                   systemPrompt, indentInput, indented, indentRuns, toolsArg,
                   sortedTools, outputData, output, customBinary, cwd, cliFile,
                   logFile, tracedPairs, pending, comparatorVars, mainVars>>

\* if (exists(outputPath)) return; otherwise cliPath is the custom binary,
\* or createTempWorkDir("claude-history") and the package is next.
ProcessStart ==
    /\ pc = "start"
    /\ IF IsDefined(outputFile)
       THEN /\ pc' = "returned"
            /\ processResult' = ReturnedVoid
            /\ UNCHANGED <<tmpDir, steps>>
       ELSE IF customBinary
       THEN /\ pc' = "trace"
            /\ UNCHANGED <<tmpDir, steps, processResult>>
       ELSE /\ tmpDir' = "exists"
            /\ steps' = Append(steps, "createTempWorkDir")
            /\ pc' = "download"
            /\ UNCHANGED processResult
    /\ UNCHANGED <<cliContent, patchResult, patchRuns, pairs, selected,
                   jsonlContent, data, messageArg, userMessage, bodyArg,
                   systemPrompt, indentInput, indented, indentRuns, toolsArg,
                   sortedTools, outputData, output, customBinary, outputFile,
                   cwd, cliFile, logFile, tracedPairs, pending,
                   comparatorVars, mainVars>>

\* downloadPackage(versionOrLabel, tmpDir): npm pack throws or succeeds; the
\* call is before the try block.
Download ==
    /\ pc = "download"
    /\ steps' = Append(steps, "downloadPackage")
    /\ \/ pc' = "unpack" /\ UNCHANGED processResult
       \/ pc' = "thrown" /\ processResult' = Thrown(DownloadError)
    /\ UNCHANGED <<cliContent, patchResult, patchRuns, pairs, selected,
                   jsonlContent, data, messageArg, userMessage, bodyArg,
                   systemPrompt, indentInput, indented, indentRuns, toolsArg,
                   sortedTools, outputData, output, customBinary, outputFile,
                   tmpDir, cwd, cliFile, logFile, tracedPairs, pending,
                   comparatorVars, mainVars>>

\* exec(`tar -xzf ...`): the package holds a cli.js or none.
Unpack ==
    /\ pc = "unpack"
    /\ steps' = Append(steps, "tar")
    /\ \/ /\ pc' = "locate"
          /\ cliFile' \in {Undefined} \cup {Defined(t) : t \in CliTexts}
          /\ UNCHANGED processResult
       \/ /\ pc' = "thrown"
          /\ processResult' = Thrown(UnpackError)
          /\ UNCHANGED cliFile
    /\ UNCHANGED <<cliContent, patchResult, patchRuns, pairs, selected,
                   jsonlContent, data, messageArg, userMessage, bodyArg,
                   systemPrompt, indentInput, indented, indentRuns, toolsArg,
                   sortedTools, outputData, output, customBinary, outputFile,
                   tmpDir, cwd, logFile, tracedPairs, pending,
                   comparatorVars, mainVars>>

\* if (!exists(cliPath)) throw new Error(`CLI file not found at ...`)
Locate ==
    /\ pc = "locate"
    /\ IF IsDefined(cliFile)
       THEN pc' = "patch" /\ UNCHANGED processResult
       ELSE pc' = "thrown" /\ processResult' = Thrown(CliNotFoundError)
    /\ UNCHANGED <<cliContent, patchResult, patchRuns, pairs, selected,
                   jsonlContent, data, messageArg, userMessage, bodyArg,
                   systemPrompt, indentInput, indented, indentRuns, toolsArg,
                   sortedTools, outputData, output, customBinary, outputFile,
                   tmpDir, cwd, cliFile, logFile, tracedPairs, steps, pending,
                   comparatorVars, mainVars>>

\* A patch step that goes on to the traced run when the patcher has thrown.
PatchCliProceedsOnError ==
    /\ pc = "patch"
    /\ steps' = Append(steps, "patchCliVersionCheck")
    /\ cliContent' = ValueOf(cliFile)
    /\ patchRuns' = patchRuns + 1
    /\ LET outcome == patchCliVersionCheck(ValueOf(cliFile))
       IN  /\ patchResult' = outcome
           /\ pc' = "trace"
           /\ cliFile' = IF outcome.status = "returned" /\ outcome.patched
                         THEN Defined(outcome.content)
                         ELSE cliFile
           /\ UNCHANGED processResult
    /\ UNCHANGED <<pairs, selected, jsonlContent, data, messageArg,
                   userMessage, bodyArg, systemPrompt, indentInput, indented,
                   indentRuns, toolsArg, sortedTools, outputData, output,
                   customBinary, outputFile, tmpDir, cwd, logFile, tracedPairs,
                   pending, comparatorVars, mainVars>>

\* readFile(cliPath), patchCliVersionCheck(cliContent), and writeFile(cliPath,
\* patchResult.content) when patched; an error of the patcher leaves
\* processVersion, the call being before the try block.
PatchCli ==
    /\ pc = "patch"
    /\ steps' = Append(steps, "patchCliVersionCheck")
    /\ cliContent' = ValueOf(cliFile)
    /\ patchRuns' = patchRuns + 1
    /\ LET outcome == patchCliVersionCheck(ValueOf(cliFile))
       IN  /\ patchResult' = outcome
           /\ IF outcome.status = "thrown"
              THEN /\ pc' = "thrown"
                   /\ processResult' = outcome
                   /\ UNCHANGED cliFile
              ELSE /\ pc' = "trace"
                   /\ cliFile' = IF outcome.patched THEN Defined(outcome.content)
                                 ELSE cliFile
                   /\ UNCHANGED processResult
    /\ UNCHANGED <<pairs, selected, jsonlContent, data, messageArg,
                   userMessage, bodyArg, systemPrompt, indentInput, indented,
                   indentRuns, toolsArg, sortedTools, outputData, output,
                   customBinary, outputFile, tmpDir, cwd, logFile, tracedPairs,
                   pending, comparatorVars, mainVars>>

\* The try block up to exec(command): createTempWorkDir for a custom binary,
\* process.chdir(workDir), and the traced run, which throws or leaves a
\* capture file or none.
Trace ==
    /\ pc = "trace"
    /\ tmpDir' = "exists"
    /\ cwd' = "tmp"
    /\ steps' = (IF customBinary THEN Append(steps, "createTempWorkDir")
                 ELSE steps) \o <<"exec">>
    /\ \/ /\ pending' = Thrown(ExecError)
          /\ pc' = "finally"
          /\ UNCHANGED <<logFile, tracedPairs>>
       \/ /\ pc' = "findLog"
          /\ \E n \in 0..MaxTracedPairs : \E bodies \in [1..n -> TracedBodies] :
                /\ tracedPairs' = [i \in 1..n |-> TracedPairAt(i, bodies[i])]
                /\ \/ logFile' = Undefined
                   \/ \E truncated \in BOOLEAN :
                        logFile' = Defined(CaptureText(tracedPairs', truncated))
          /\ UNCHANGED pending
    /\ UNCHANGED <<cliContent, patchResult, patchRuns, pairs, selected,
                   jsonlContent, data, messageArg, userMessage, bodyArg,
                   systemPrompt, indentInput, indented, indentRuns, toolsArg,
                   sortedTools, outputData, output, customBinary, outputFile,
                   cliFile, processResult, comparatorVars, mainVars>>

\* files.find(...); if (!jsonlFile) throw new Error("No JSONL log file ...")
FindLog ==
    /\ pc = "findLog"
    /\ IF IsDefined(logFile)
       THEN pc' = "parse" /\ UNCHANGED pending
       ELSE pc' = "finally" /\ pending' = Thrown(NoLogError)
    /\ UNCHANGED <<cliContent, patchResult, patchRuns, pairs, selected,
                   jsonlContent, data, messageArg, userMessage, bodyArg,
                   systemPrompt, indentInput, indented, indentRuns, toolsArg,
                   sortedTools, outputData, output, customBinary, outputFile,
                   tmpDir, cwd, cliFile, logFile, tracedPairs, steps,
                   processResult, comparatorVars, mainVars>>

\* const jsonlContent = readFile(jsonlPath); const data = parseJsonl(...)
ParseCapture ==
    /\ pc = "parse"
    /\ steps' = Append(steps, "parseJsonl")
    /\ jsonlContent' = ValueOf(logFile)
    /\ LET outcome == parseJsonl(ValueOf(logFile))
       IN  /\ data' = outcome
           /\ IF outcome.status = "thrown"
              THEN /\ pc' = "finally"
                   /\ pending' = outcome
                   /\ UNCHANGED pairs
              ELSE /\ pc' = "select"
                   /\ pairs' = DecodedPairs(outcome.value, tracedPairs)
                   /\ UNCHANGED pending
    /\ UNCHANGED <<cliContent, patchResult, patchRuns, selected, messageArg,
                   userMessage, bodyArg, systemPrompt, indentInput, indented,
                   indentRuns, toolsArg, sortedTools, outputData, output,
                   customBinary, outputFile, tmpDir, cwd, cliFile, logFile,
                   tracedPairs, processResult, comparatorVars, mainVars>>

\* const selectedRequest = selectBestRequest(data), and the warning when the
\* selected request has no tools.
SelectRequest ==
    /\ pc = "select"
    /\ LET outcome == selectBestRequest(pairs)
       IN  /\ selected' = outcome
           /\ IF outcome.status = "thrown"
              THEN /\ pc' = "finally"
                   /\ pending' = outcome
                   /\ steps' = Append(steps, "selectBestRequest")
              ELSE /\ pc' = "extract"
                   /\ steps' = steps \o <<"selectBestRequest">> \o
                        (IF hasTools(outcome.pair) THEN <<>>
                         ELSE <<"warn">>)
                   /\ UNCHANGED pending
    /\ UNCHANGED <<cliContent, patchResult, patchRuns, pairs, jsonlContent,
                   data, messageArg, userMessage, bodyArg, systemPrompt,
                   indentInput, indented, indentRuns, toolsArg, sortedTools,
                   outputData, output, customBinary, outputFile, tmpDir, cwd,
                   cliFile, logFile, tracedPairs, processResult,
                   comparatorVars, mainVars>>

\* findAndExtractUserMessage(request.body.messages),
\* extractSystemPrompt(request.body), filterAndSortTools(request.body.tools)
Extract ==
    /\ pc = "extract"
    /\ steps' = Append(steps, "extract")
    /\ LET body == selected.pair
           users == {i \in 1..Len(body.messages) :
                        body.messages[i].role = "user"}
       IN  /\ messageArg' = IF users = {} THEN Undefined
                            ELSE Defined(body.messages[MinOf(users)])
           /\ userMessage' = findAndExtractUserMessage(body.messages)
           /\ bodyArg' = [system |-> body.system]
           /\ systemPrompt' = extractSystemPrompt(body)
           /\ toolsArg' = body.tools
           /\ sortedTools' = filterAndSortTools(body.tools)
    /\ pc' = "format"
    /\ UNCHANGED <<cliContent, patchResult, patchRuns, pairs, selected,
                   jsonlContent, data, indentInput, indented, indentRuns,
                   outputData, output, customBinary, outputFile, tmpDir, cwd,
                   cliFile, logFile, tracedPairs, pending, processResult,
                   comparatorVars, mainVars>>

\* releaseDate, versionLabel, and const output = formatOutput({...})
Format ==
    /\ pc = "format"
    /\ steps' = Append(steps, "formatOutput")
    /\ \E date \in (IF customBinary THEN {CustomBinaryDate}
                    ELSE ReleaseDates \cup {UnknownDate}) :
        LET d == [versionLabel |-> IF customBinary THEN CustomBinaryLabel
                                   ELSE IF versionIndex > 0
                                   THEN versions[versionIndex]
                                   ELSE VersionLabel,
                  releaseDate |-> date,
                  userMessage |-> userMessage.value,
                  systemPrompt |-> systemPrompt.value,
                  tools |-> sortedTools.value]
        IN  /\ outputData' = d
            /\ output' = formatOutput(d)
    /\ pc' = "write"
    /\ UNCHANGED <<cliContent, patchResult, patchRuns, pairs, selected,
                   jsonlContent, data, messageArg, userMessage, bodyArg,
                   systemPrompt, indentInput, indented, indentRuns, toolsArg,
                   sortedTools, customBinary, outputFile, tmpDir, cwd, cliFile,
                   logFile, tracedPairs, pending, processResult,
                   comparatorVars, mainVars>>

\* writeFile(outputPath, output), the last statement of the try block.
WriteReport ==
    /\ pc = "write"
    /\ steps' = Append(steps, "writeFile")
    /\ outputFile' = Defined(output.value)
    /\ pending' = ReturnedVoid
    /\ pc' = "finally"
    /\ UNCHANGED <<cliContent, patchResult, patchRuns, pairs, selected,
                   jsonlContent, data, messageArg, userMessage, bodyArg,
                   systemPrompt, indentInput, indented, indentRuns, toolsArg,
                   sortedTools, outputData, output, customBinary, tmpDir, cwd,
                   cliFile, logFile, tracedPairs, processResult,
                   comparatorVars, mainVars>>

\* finally: process.chdir(originalCwd); if (tmpDir) cleanupTempDir(tmpDir);
\* an error caught by the catch block is thrown again.
Finally ==
    /\ pc = "finally"
    /\ steps' = Append(steps, "cleanupTempDir")
    /\ cwd' = "original"
    /\ tmpDir' = "removed"
    /\ processResult' = pending
    /\ pc' = IF pending.status = "thrown" THEN "thrown" ELSE "returned"
    /\ UNCHANGED <<cliContent, patchResult, patchRuns, pairs, selected,
                   jsonlContent, data, messageArg, userMessage, bodyArg,
                   systemPrompt, indentInput, indented, indentRuns, toolsArg,
                   sortedTools, outputData, output, customBinary, outputFile,
                   cliFile, logFile, tracedPairs, pending,
                   comparatorVars, mainVars>>

PipelineNext ==
    \/ ProcessStart
    \/ Download
    \/ Unpack
    \/ Locate
    \/ PatchCli
    \/ Trace
    \/ FindLog
    \/ ParseCapture
    \/ SelectRequest
    \/ Extract
    \/ Format
    \/ WriteReport
    \/ Finally

SpecPipeline == PipelineInit /\ [][PipelineNext]_vars

\* ------------------------------------------------------------- index: main

\* The versions npm view lists for the package, in the order of the listing;
\* the first is the one npm view gives as the latest version.
PublishedVersions ==
    <<<<"0", ".", "1", "0", ".", "0">>, <<"0", ".", "9", ".", "0">>>>

\* The version given on the command line.
StartVersions ==
    {<<"0", ".", "9", ".", "0">>, <<"0", ".", "1", "0", ".", "0">>,
     <<"1", "0", ".", "0", ".", "0">>}

RECURSIVE InsertByVersion(_, _)
\* v placed into the sorted list after every version that compareVersions
\* does not order after it.
InsertByVersion(sorted, v) ==
    IF sorted = <<>> THEN <<v>>
    ELSE IF compareVersions(Head(sorted), v) <= 0
         THEN <<Head(sorted)>> \o InsertByVersion(Tail(sorted), v)
         ELSE <<v>> \o sorted

RECURSIVE SortVersionsFrom(_, _)
SortVersionsFrom(sorted, rest) ==
    IF rest = <<>> THEN sorted
    ELSE SortVersionsFrom(InsertByVersion(sorted, Head(rest)), Tail(rest))

\* allVersions.filter((v) => compareVersions(v, startVersion) >= 0 &&
\* compareVersions(v, endVersion) <= 0).sort(compareVersions)
getAllVersionsBetween(allVersions, startVersion, endVersion) ==
    SortVersionsFrom(<<>>,
        SelectSeq(allVersions, LAMBDA v :
            /\ compareVersions(v, startVersion) >= 0
            /\ compareVersions(v, endVersion) <= 0))

\* main is started with --latest, with or without --binary-path; the version
\* is the first argument, or "custom" for a binary without a label.
LatestInit ==
    /\ mainPc = "main"
    /\ fetchToLatest = TRUE
    /\ customBinary \in BOOLEAN
    /\ IF customBinary
       THEN /\ versions = <<<<"c", "u", "s", "t", "o", "m">>>>
            /\ cliFile \in {Undefined} \cup {Defined(t) : t \in CliTexts}
       ELSE /\ versions \in {<<v>> : v \in StartVersions}
            /\ cliFile = Undefined
    /\ versionIndex = 0
    /\ reports = <<>>
    /\ written = {}
    /\ pc = "idle"
    /\ outputFile = Undefined
    /\ tmpDir = "none"
    /\ cwd = "original"
    /\ logFile = Undefined
    /\ tracedPairs = <<>>
    /\ steps = <<>>
    /\ pending = NoCall
    /\ processResult = NoCall
    /\ PatcherIdle
    /\ SelectorIdle
    /\ ParserIdle
    /\ ExtractorIdle
    /\ IndenterIdle
    /\ CataloguerIdle
    /\ FormatterIdle
    /\ ComparatorIdle

\* A main that takes the version range whenever --latest is given, also with
\* --binary-path.
MainStartLatestWins ==
    /\ mainPc = "main"
    /\ IF customBinary /\ ~IsDefined(cliFile)
       THEN /\ mainPc' = "exit1"
            /\ UNCHANGED <<versions, versionIndex, pc, outputFile>>
       ELSE IF fetchToLatest
       THEN \/ /\ mainPc' = "exit1"
               /\ UNCHANGED <<versions, versionIndex, pc, outputFile>>
            \/ LET range == getAllVersionsBetween(PublishedVersions,
                                IF customBinary
                                THEN PublishedVersions[Len(PublishedVersions)]
                                ELSE versions[1],
                                PublishedVersions[1])
               IN  /\ versions' = range
                   /\ IF range = <<>>
                      THEN /\ mainPc' = "completed"
                           /\ UNCHANGED <<versionIndex, pc, outputFile>>
                      ELSE /\ mainPc' = "batch"
                           /\ versionIndex' = 1
                           /\ pc' = "start"
                           /\ outputFile' \in
                                {Undefined, Defined(ExistingReport)}
       ELSE /\ mainPc' = "single"
            /\ versionIndex' = 1
            /\ pc' = "start"
            /\ outputFile' \in {Undefined, Defined(ExistingReport)}
            /\ UNCHANGED versions
    /\ UNCHANGED <<reports, written>>
    /\ UNCHANGED <<fetchToLatest, customBinary, tmpDir, cwd, cliFile,
                   logFile, tracedPairs, steps, pending, processResult,
                   patcherVars, selectorVars, parserVars, extractorVars,
                   indenterVars, cataloguerVars, formatterVars,
                   comparatorVars>>

\* if (customBinaryPath && !exists(customBinaryPath)) process.exit(1);
\* if (fetchToLatest && !customBinaryPath): getLatestVersion() and
\* getAllVersionsBetween(version, latestVersion), each ending the process
\* with status 1 when npm view fails, and the first processVersion(v) of the
\* loop; else the one processVersion(version, ..., customBinaryPath).
MainStart ==
    /\ mainPc = "main"
    /\ IF customBinary /\ ~IsDefined(cliFile)
       THEN /\ mainPc' = "exit1"
            /\ UNCHANGED <<versions, versionIndex, pc, outputFile>>
       ELSE IF fetchToLatest /\ ~customBinary
       THEN \/ /\ mainPc' = "exit1"
               /\ UNCHANGED <<versions, versionIndex, pc, outputFile>>
            \/ LET range == getAllVersionsBetween(PublishedVersions,
                                                  versions[1],
                                                  PublishedVersions[1])
               IN  /\ versions' = range
                   /\ IF range = <<>>
                      THEN /\ mainPc' = "completed"
                           /\ UNCHANGED <<versionIndex, pc, outputFile>>
                      ELSE /\ mainPc' = "batch"
                           /\ versionIndex' = 1
                           /\ pc' = "start"
                           /\ outputFile' \in
                                {Undefined, Defined(ExistingReport)}
       ELSE /\ mainPc' = "single"
            /\ versionIndex' = 1
            /\ pc' = "start"
            /\ outputFile' \in {Undefined, Defined(ExistingReport)}
            /\ UNCHANGED versions
    /\ UNCHANGED <<reports, written>>
    /\ UNCHANGED <<fetchToLatest, customBinary, tmpDir, cwd, cliFile,
                   logFile, tracedPairs, steps, pending, processResult,
                   patcherVars, selectorVars, parserVars, extractorVars,
                   indenterVars, cataloguerVars, formatterVars,
                   comparatorVars>>

\* A loop that ends at the first version whose processVersion throws.
VersionDoneStopsOnFailure ==
    /\ mainPc \in {"batch", "single"}
    /\ pc \in {"returned", "thrown"}
    /\ written' = IF IsDefined(outputFile) THEN written \cup {versionIndex}
                  ELSE written
    /\ IF mainPc = "single"
       THEN /\ mainPc' = IF pc = "thrown" THEN "exit1" ELSE "completed"
            /\ UNCHANGED <<reports, versionIndex>>
            /\ UNCHANGED <<pc, outputFile, tmpDir, cliFile, logFile,
                           tracedPairs, steps, pending, processResult,
                           patcherVars, selectorVars, parserVars,
                           extractorVars, cataloguerVars, formatterVars>>
       ELSE /\ reports' = IF pc = "thrown" THEN Append(reports, versionIndex)
                          ELSE reports
            /\ IF versionIndex < Len(versions) /\ pc # "thrown"
               THEN /\ versionIndex' = versionIndex + 1
                    /\ UNCHANGED mainPc
                    /\ pc' = "start"
                    /\ outputFile' \in {Undefined, Defined(ExistingReport)}
                    /\ tmpDir' = "none"
                    /\ cliFile' = Undefined
                    /\ logFile' = Undefined
                    /\ tracedPairs' = <<>>
                    /\ steps' = <<>>
                    /\ pending' = NoCall
                    /\ processResult' = NoCall
                    /\ cliContent' = <<>>
                    /\ patchResult' = NoCall
                    /\ patchRuns' = 0
                    /\ pairs' = <<>>
                    /\ selected' = NoCall
                    /\ jsonlContent' = <<>>
                    /\ data' = NoCall
                    /\ messageArg' = <<>>
                    /\ userMessage' = NoCall
                    /\ bodyArg' = [system |-> <<>>]
                    /\ systemPrompt' = NoCall
                    /\ toolsArg' = <<>>
                    /\ sortedTools' = NoCall
                    /\ outputData' = <<>>
                    /\ output' = NoCall
               ELSE /\ mainPc' = "completed"
                    /\ UNCHANGED versionIndex
                    /\ UNCHANGED <<pc, outputFile, tmpDir, cliFile, logFile,
                                   tracedPairs, steps, pending, processResult,
                                   patcherVars, selectorVars, parserVars,
                                   extractorVars, cataloguerVars, formatterVars>>
    /\ UNCHANGED <<fetchToLatest, versions, customBinary, cwd, indenterVars,
                   comparatorVars>>

\* processVersion has returned or thrown.  In the loop: catch (error) {
\* console.error(`${v} failed:`) ... }, and the next version with a new
\* processVersion call, or "Completed" after the last.  Outside the loop the
\* error reaches main().catch, which ends the process with status 1.
VersionDone ==
    /\ mainPc \in {"batch", "single"}
    /\ pc \in {"returned", "thrown"}
    /\ written' = IF IsDefined(outputFile) THEN written \cup {versionIndex}
                  ELSE written
    /\ IF mainPc = "single"
       THEN /\ mainPc' = IF pc = "thrown" THEN "exit1" ELSE "completed"
            /\ UNCHANGED <<reports, versionIndex>>
            /\ UNCHANGED <<pc, outputFile, tmpDir, cliFile, logFile,
                           tracedPairs, steps, pending, processResult,
                           patcherVars, selectorVars, parserVars,
                           extractorVars, cataloguerVars, formatterVars>>
       ELSE /\ reports' = IF pc = "thrown" THEN Append(reports, versionIndex)
                          ELSE reports
            /\ IF versionIndex < Len(versions)
               THEN /\ versionIndex' = versionIndex + 1
                    /\ UNCHANGED mainPc
                    /\ pc' = "start"
                    /\ outputFile' \in {Undefined, Defined(ExistingReport)}
                    /\ tmpDir' = "none"
                    /\ cliFile' = Undefined
                    /\ logFile' = Undefined
                    /\ tracedPairs' = <<>>
                    /\ steps' = <<>>
                    /\ pending' = NoCall
                    /\ processResult' = NoCall
                    /\ cliContent' = <<>>
                    /\ patchResult' = NoCall
                    /\ patchRuns' = 0
                    /\ pairs' = <<>>
                    /\ selected' = NoCall
                    /\ jsonlContent' = <<>>
                    /\ data' = NoCall
                    /\ messageArg' = <<>>
                    /\ userMessage' = NoCall
                    /\ bodyArg' = [system |-> <<>>]
                    /\ systemPrompt' = NoCall
                    /\ toolsArg' = <<>>
                    /\ sortedTools' = NoCall
                    /\ outputData' = <<>>
                    /\ output' = NoCall
               ELSE /\ mainPc' = "completed"
                    /\ UNCHANGED versionIndex
                    /\ UNCHANGED <<pc, outputFile, tmpDir, cliFile, logFile,
                                   tracedPairs, steps, pending, processResult,
                                   patcherVars, selectorVars, parserVars,
                                   extractorVars, cataloguerVars, formatterVars>>
    /\ UNCHANGED <<fetchToLatest, versions, customBinary, cwd, indenterVars,
                   comparatorVars>>

LatestNext ==
    \/ MainStart
    \/ PipelineNext
    \/ VersionDone

SpecLatest == LatestInit /\ [][LatestNext]_vars

\* ------------------------------------------- the patcher's contract, stated
\* on the text alone (0-based indices), without the patcher's scans

Matches(s, pat, i) ==
    /\ i + Len(pat) <= Len(s)
    /\ s[i + 1] = pat[1]
    /\ \A k \in 1..Len(pat) : s[i + k] = pat[k]

\* The indices at which one of the characters of cs stands.
IndicesOf(s, cs) == {i \in 0..(Len(s) - 1) : s[i + 1] \in cs}

MarkerIndices(s) ==
    {i \in IndicesOf(s, {WarningText[1]}) : Matches(s, WarningText, i)}

\* The depth after the character at k, counted from open (depth 1), braces
\* being the indices of the text's braces.
DepthAt(s, braces, open, k) ==
    1 + Cardinality({j \in braces : open < j /\ j <= k /\ s[j + 1] = "{"})
      - Cardinality({j \in braces : open < j /\ j <= k /\ s[j + 1] = "}"})

\* The places the contract speaks of, each -1 when there is none:
\*   marker: the first occurrence of the marker;
\*   fn:     the nearest "function" at or before marker;
\*   open:   the first "{" at or after fn;
\*   close:  the first index after open at which the depth is 0;
\*   later:  whether a "function" occurs after marker;
\*   inner:  whether a "}" lies between open and close (nested braces).
Anatomy(s) ==
    LET starts == IndicesOf(s, {WarningText[1], FunctionToken[1], "{", "}"})
        markers == {i \in starts : Matches(s, WarningText, i)}
        functions == {i \in starts : Matches(s, FunctionToken, i)}
        marker == IF markers = {} THEN -1 ELSE MinOf(markers)
        preceding == {i \in functions : i <= marker}
        fn == IF preceding = {} THEN -1 ELSE MaxOf(preceding)
        braces == {j \in starts : s[j + 1] \in {"{", "}"}}
        opens == IF fn = -1 THEN {}
                 ELSE {j \in braces : j >= fn /\ s[j + 1] = "{"}
        open == IF opens = {} THEN -1 ELSE MinOf(opens)
        closers == IF open = -1 THEN {}
                   ELSE {k \in braces :
                            k > open /\ DepthAt(s, braces, open, k) = 0}
        close == IF closers = {} THEN -1 ELSE MinOf(closers)
    IN  [marker |-> marker, fn |-> fn, open |-> open, close |-> close,
         later |-> \E i \in functions : i > marker,
         inner |-> \E j \in braces :
                      open # -1 /\ open < j /\ s[j + 1] = "}"
                          /\ (close = -1 \/ j < close)]

\* C1: when the marker has an enclosing "function" with a "{" whose depth
\* count returns to 0, the patcher returns patched = true and the content
\* text[0..open] + " /* Version check disabled by patch */ }" +
\* text[close+1..end]: the text up to the opening brace and the text after
\* the closing brace are kept, and the body between them is gone.
C1_PatchReplacesBody ==
    patchRuns > 0 =>
        LET a == Anatomy(cliContent)
            after == Len(cliContent) - a.close - 1
        IN  a.close # -1 =>
            /\ patchResult.status = "returned"
            /\ patchResult.patched = TRUE
            /\ patchResult.content =
                   SubSeq(cliContent, 1, a.open + 1) \o PatchedBody
                       \o SubSeq(cliContent, a.close + 2, Len(cliContent))
            /\ Len(patchResult.content) = a.open + 1 + Len(PatchedBody) + after
            /\ SubSeq(patchResult.content, 1, a.open + 1)
                  = SubSeq(cliContent, 1, a.open + 1)
            /\ SubSeq(patchResult.content,
                      Len(patchResult.content) - after + 1,
                      Len(patchResult.content))
                  = SubSeq(cliContent, a.close + 2, Len(cliContent))

\* A first run on a text whose function body holds the marker inside nested
\* braces.
C1_Witness ==
    /\ patchRuns = 1
    /\ patchResult.status = "returned"
    /\ patchResult.patched
    /\ LET a == Anatomy(cliContent)
       IN  a.close # -1 /\ a.inner /\ a.open < a.marker /\ a.marker < a.close

\* C2: on a text without the marker the patcher returns patched = false and
\* the text itself, and does not throw; this includes a re-run on an earlier
\* output that no longer holds the marker.
C2_NoMarkerUnpatched ==
    (patchRuns > 0 /\ MarkerIndices(cliContent) = {}) =>
        /\ patchResult.status = "returned"
        /\ patchResult.patched = FALSE
        /\ patchResult.content = cliContent

\* A re-run on the output of a run that patched, the marker being gone.
C2_Witness ==
    /\ patchRuns >= 2
    /\ MarkerIndices(cliContent) = {}
    /\ \E i \in 0..(Len(cliContent) - 1) : Matches(cliContent, PatchedBody, i)
    /\ patchResult.status = "returned"
    /\ patchResult.patched = FALSE

\* C3: with the marker present and no "function" at or before its first
\* occurrence, the patcher throws "no enclosing function" and returns no
\* result, also when "function" occurs later in the text.
C3_NoEnclosingFunctionThrows ==
    patchRuns > 0 =>
        LET a == Anatomy(cliContent)
        IN  (a.marker # -1 /\ a.fn = -1) =>
                patchResult = Thrown(NoFunctionError)

\* The throw on a text whose only "function" comes after the marker.
C3_Witness ==
    /\ patchRuns = 1
    /\ patchResult = Thrown(NoFunctionError)
    /\ LET a == Anatomy(cliContent)
       IN  a.marker # -1 /\ a.fn = -1 /\ a.later

\* C4: with the marker and a preceding "function", the patcher throws
\* exactly when there is no "{" at or after the function token ("no opening
\* brace") or the depth count from the first such "{" never returns to 0
\* ("unbalanced braces"); a throw carries no content.
C4_BraceErrorsExactly ==
    patchRuns > 0 =>
        LET a == Anatomy(cliContent)
        IN  a.fn # -1 =>
            /\ patchResult.status \in {"thrown", "returned"}
            /\ (patchResult.status = "thrown") <=> (a.close = -1)
            /\ (a.open = -1) <=> (patchResult = Thrown(NoOpenBraceError))
            /\ (a.open # -1 /\ a.close = -1) <=>
                   (patchResult = Thrown(NoCloseBraceError))

\* An unbalanced text in which a "{" precedes the function token and an
\* inner block is closed while the function body is not.
C4_Witness ==
    /\ patchRuns = 1
    /\ patchResult = Thrown(NoCloseBraceError)
    /\ LET a == Anatomy(cliContent)
       IN  /\ a.fn # -1
           /\ a.inner
           /\ \E j \in 0..(a.fn - 1) : cliContent[j + 1] = "{"

\* ------------------------------------------ the selector's contract, stated
\* on the capture alone; a pair is named by its place in the capture, which
\* is its timestamp

HaikuUpper == <<"H","A","I","K","U">>

\* "haiku" occurs in the identifier, each letter in either case.
ContainsHaikuAnyCase(id) ==
    \E i \in 0..(Len(id) - Len(Haiku)) :
        \A k \in 1..Len(Haiku) : id[i + k] \in {Haiku[k], HaikuUpper[k]}

\* Step 1: the model identifier is there (not absent, not empty) and does not
\* name a haiku model.
Qualifies(pair) ==
    /\ pair.model # Undefined
    /\ pair.model # Defined(<<>>)
    /\ ~ContainsHaikuAnyCase(pair.model[1])

NonEmptyList(o) == o # Undefined /\ o # Defined(<<>>)

QualifyingIndices == {i \in 1..Len(pairs) : Qualifies(pairs[i])}

\* The non-haiku records with a non-empty tool list.
ToolBearingIndices == {i \in QualifyingIndices : NonEmptyList(pairs[i].tools)}

\* Step 2: a non-empty tool list and a non-empty system-block list.
PreferredIndices ==
    {i \in ToolBearingIndices : NonEmptyList(pairs[i].system)}

ToolListLength(pair) ==
    IF pair.tools = Undefined THEN 0 ELSE Len(pair.tools[1])

\* C5: selectBestRequest never returns a record whose model identifier is
\* missing or contains "haiku" in any letter case, whatever tools and system
\* blocks that record has.
C5_NeverReturnsHaiku ==
    selected.status = "returned" => Qualifies(selected.pair)

\* A record is returned although a mixed-case haiku record with a system
\* block and more tools is in the capture.
C5_Witness ==
    /\ selected.status = "returned"
    /\ \E i \in 1..Len(pairs) :
            /\ pairs[i].model = Defined(ClaudeHaikuMixed)
            /\ NonEmptyList(pairs[i].system)
            /\ ToolListLength(pairs[i]) > ToolListLength(selected.pair)

\* C6: the preferred tier is exactly the non-haiku records with a non-empty
\* tool list and a non-empty system-block list; a record whose system-block
\* list is absent or empty is returned only as the fallback, the first
\* non-haiku record.
C6_PreferredTierNeedsSystemBlocks ==
    selected # NoCall =>
        LET tier == requestsWithToolsAndSystemPrompt(filterNonHaikuRequests(pairs))
        IN  /\ {tier[k].timestamp : k \in 1..Len(tier)} = PreferredIndices
            /\ selected.status = "returned" =>
                   \/ selected.pair.timestamp \in PreferredIndices
                   \/ selected.pair.timestamp = MinOf(QualifyingIndices)

\* C7: whenever the preferred tier is non-empty, the returned record is of
\* that tier, has the most tools of the tier and is the earliest of the
\* records with that many tools.
C7_MostToolsEarliestOfTier ==
    (selected # NoCall /\ PreferredIndices # {}) =>
        /\ selected.status = "returned"
        /\ selected.pair.timestamp \in PreferredIndices
        /\ \A j \in PreferredIndices :
               /\ ToolListLength(pairs[j]) <= ToolListLength(selected.pair)
               /\ ToolListLength(pairs[j]) = ToolListLength(selected.pair)
                      => selected.pair.timestamp <= j

\* C8: when some non-haiku record has a non-empty tool list, also when no
\* record carries a system block, selectBestRequest returns a record with the
\* most tools among those records, the record the selection of src/index.ts
\* returns.
C8_MostToolsAsInIndex ==
    (selected # NoCall /\ ToolBearingIndices # {}) =>
        /\ selected.status = "returned"
        /\ selected.pair.timestamp \in ToolBearingIndices
        /\ \A j \in ToolBearingIndices :
               ToolListLength(pairs[j]) <= ToolListLength(selected.pair)
        /\ selected = legacySelect(pairs)

\* C9: when no record qualifies for the preferred tier and some record has a
\* present, non-haiku model, the first such record in capture order is
\* returned.
C9_FallbackIsFirstNonHaiku ==
    (selected # NoCall /\ PreferredIndices = {} /\ QualifyingIndices # {}) =>
        /\ selected.status = "returned"
        /\ selected.pair.timestamp = MinOf(QualifyingIndices)

LineStarts(s) == {1} \cup {i + 1 : i \in {j \in 1..Len(s) : s[j] = "\n"}}

\* The line of s that starts at position a, without its terminator.
LineAt(s, a) ==
    LET ends == {j \in a..Len(s) : s[j] = "\n"}
    IN  SubSeq(s, a, IF ends = {} THEN Len(s) ELSE MinOf(ends) - 1)

\* A line that trims to nothing.
IsBlank(line) == \A i \in 1..Len(line) : line[i] \in TrimWhiteSpace

NonBlankStarts(s) == {a \in LineStarts(s) : ~IsBlank(LineAt(s, a))}

\* The k-th non-blank line of s.
NonBlankLine(s, k) ==
    LET starts == NonBlankStarts(s)
    IN  LineAt(s, CHOOSE a \in starts :
                        Cardinality({b \in starts : b <= a}) = k)

\* Every non-blank line is the text of one record.
WellFormedCapture(s) ==
    \A a \in NonBlankStarts(s) : JsonParse(LineAt(s, a)).status = "returned"

\* C11: for a well-formed capture text parseJsonl returns one record per
\* non-blank line, the k-th record being the one decoded from the k-th
\* non-blank line; blank and whitespace-only lines give no record, and the
\* empty capture gives the empty sequence.
C11_OneRecordPerNonBlankLine ==
    (data # NoCall /\ WellFormedCapture(jsonlContent)) =>
        /\ data.status = "returned"
        /\ Len(data.value) = Cardinality(NonBlankStarts(jsonlContent))
        /\ \A k \in 1..Len(data.value) :
                data.value[k] = JsonParse(NonBlankLine(jsonlContent, k)).value
        /\ (jsonlContent = <<>> => data.value = <<>>)

\* Two records around a whitespace-only line that is not empty have been
\* parsed.
C11_Witness ==
    /\ data # NoCall
    /\ WellFormedCapture(jsonlContent)
    /\ data.status = "returned"
    /\ Len(data.value) = 2
    /\ \E a \in LineStarts(jsonlContent) :
            /\ IsBlank(LineAt(jsonlContent, a))
            /\ LineAt(jsonlContent, a) # <<>>
            /\ \E b, c \in NonBlankStarts(jsonlContent) : b < a /\ a < c

\* A non-blank line whose trimmed text is not the text of one record.
BadLineStarts(s) ==
    {a \in NonBlankStarts(s) : JsonParse(Trim(LineAt(s, a))).status = "thrown"}

\* C12: when one non-blank line of the capture does not decode, parseJsonl
\* throws the decoder's error and returns no sequence of records at all.
C12_BadLineFailsWholeParse ==
    (data # NoCall /\ BadLineStarts(jsonlContent) # {}) =>
        data = Thrown(JsonSyntaxError)

\* The parse has thrown on a capture with a well-formed line before and
\* after the bad one.
C12_Witness ==
    /\ data # NoCall
    /\ data.status = "thrown"
    /\ \E a \in BadLineStarts(jsonlContent) :
            \E b, c \in NonBlankStarts(jsonlContent) \ BadLineStarts(jsonlContent) :
                b < a /\ a < c

\* ------------------------------------- the extractors' contract, stated on
\* the blocks by position (block texts hold no newline, so the joined text
\* splits back into them)

\* The positions of the blocks typed "text".
TextPositions(blocks) == {i \in 1..Len(blocks) : blocks[i].type = "text"}

\* The k-th block typed "text".
NthTextBlock(blocks, k) ==
    LET positions == TextPositions(blocks)
    IN  blocks[CHOOSE i \in positions :
                    Cardinality({j \in positions : j <= i}) = k]

\* C13: extractUserMessage always returns a text: "" for an absent message,
\* the string itself for string content, for a block list the texts of
\* exactly the blocks typed "text" in order joined by newline (a missing
\* text counting as empty), and "" for an empty list, an absent content or
\* any other content.
C13_UserMessageExtraction ==
    (userMessage # NoCall) =>
        /\ userMessage.status = "returned"
        /\ ~IsDefined(messageArg) => userMessage.value = <<>>
        /\ IsDefined(messageArg) =>
            LET content == messageArg[1].content
                count == Cardinality(TextPositions(content.value))
            IN  /\ content.kind = "string" =>
                        userMessage.value = content.value
                /\ (content.kind = "array" /\ count = 0) =>
                        userMessage.value = <<>>
                /\ (content.kind = "array" /\ count > 0) =>
                        Split(userMessage.value, "\n") =
                            [k \in 1..count |->
                                LET item == NthTextBlock(content.value, k)
                                IN  IF item.text = Undefined THEN <<>>
                                    ELSE item.text[1]]
                /\ content.kind \notin {"string", "array"} =>
                        userMessage.value = <<>>

\* A block list with a text block without text, a block of another type that
\* has a text, and a text block with a text has been extracted.
C13_Witness ==
    /\ userMessage # NoCall
    /\ IsDefined(messageArg)
    /\ messageArg[1].content.kind = "array"
    /\ LET blocks == messageArg[1].content.value
       IN  /\ \E i \in 1..Len(blocks) :
                blocks[i].type = "text" /\ blocks[i].text = Undefined
           /\ \E i \in 1..Len(blocks) :
                blocks[i].type = "image" /\ blocks[i].text = Defined(<<"a">>)
           /\ \E i \in 1..Len(blocks) :
                blocks[i].type = "text" /\ blocks[i].text = Defined(<<"b">>)

\* C14: extractSystemPrompt always returns a text: the texts of exactly the
\* system blocks typed "text", in their order, joined by one newline, and ""
\* when the list is absent, empty or without a "text" block.
C14_SystemPromptExtraction ==
    (systemPrompt # NoCall) =>
        /\ systemPrompt.status = "returned"
        /\ bodyArg.system = Undefined => systemPrompt.value = <<>>
        /\ bodyArg.system # Undefined =>
            LET blocks == bodyArg.system[1]
                count == Cardinality(TextPositions(blocks))
            IN  /\ count = 0 => systemPrompt.value = <<>>
                /\ count > 0 =>
                        Split(systemPrompt.value, "\n") =
                            [k \in 1..count |-> NthTextBlock(blocks, k).text]

\* Two different texts around a block of another type have been extracted.
C14_Witness ==
    /\ systemPrompt # NoCall
    /\ bodyArg.system # Undefined
    /\ LET blocks == bodyArg.system[1]
       IN  /\ Len(blocks) = 3
           /\ blocks[1] = [type |-> "text", text |-> <<"b">>]
           /\ blocks[2] = [type |-> "other", text |-> <<"a">>]
           /\ blocks[3] = [type |-> "text", text |-> <<"a">>]
    /\ systemPrompt.value = <<"b", "\n", "a">>

\* ------------------------------------ the reindenter's contract, stated on
\* the lines by position

\* The j-th line of s.
NthLine(s, j) ==
    LET starts == LineStarts(s)
    IN  LineAt(s, CHOOSE a \in starts :
                        Cardinality({b \in starts : b <= a}) = j)

\* A line that starts with one or more "#" followed by a whitespace character.
IsHeaderLine(line) ==
    \E n \in 1..(Len(line) - 1) :
        /\ \A i \in 1..n : line[i] = "#"
        /\ line[n + 1] \in {" ", "\t", "\r", "\f"}

\* C15: after k applications of indentHeaders the text has the same number
\* of lines in the same order; a line that starts with one or more "#"
\* followed by whitespace has exactly k more "#" in front, and every other
\* line is unchanged.
C15_IndentPrependsOneHashPerRun ==
    /\ Cardinality(LineStarts(indented)) = Cardinality(LineStarts(indentInput))
    /\ \A j \in 1..Cardinality(LineStarts(indentInput)) :
            LET line == NthLine(indentInput, j)
            IN  NthLine(indented, j) =
                    IF IsHeaderLine(line)
                    THEN [i \in 1..indentRuns |-> "#"] \o line
                    ELSE line

\* A text with a header line and a line that starts with "#" without being
\* a header has been reindented twice.
C15_Witness ==
    /\ indentRuns = 2
    /\ \E j \in 1..Cardinality(LineStarts(indentInput)) :
            IsHeaderLine(NthLine(indentInput, j))
    /\ \E j \in 1..Cardinality(LineStarts(indentInput)) :
            LET line == NthLine(indentInput, j)
            IN  Len(line) > 1 /\ line[1] = "#" /\ ~IsHeaderLine(line)

\* ------------------------------------ the cataloguer's contract, stated on
\* the lists by counting and by collation keys

\* The number of times tool t occurs in the list ts.
Occurrences(ts, t) == Cardinality({i \in 1..Len(ts) : ts[i] = t})

\* name begins with the reserved prefix.
HasReservedPrefix(name) ==
    /\ Len(name) >= 5
    /\ \A i \in 1..5 : name[i] = <<"m", "c", "p", "_", "_">>[i]

\* u comes before v in the lexicographic order of weight sequences.
LexLess(u, v) ==
    \E i \in 1..(Len(u) + 1) :
        /\ i <= Len(v)
        /\ \A j \in 1..(i - 1) : u[j] = v[j]
        /\ (i <= Len(u) => u[i] < v[i])

PrimaryKey(name) == [i \in 1..Len(name) |-> PrimaryWeight(name[i])]

CaseKey(name) == [i \in 1..Len(name) |-> CaseWeight(name[i])]

\* a does not sort after b in the locale-aware order of names.
NameNotAfter(a, b) ==
    \/ LexLess(PrimaryKey(a), PrimaryKey(b))
    \/ /\ PrimaryKey(a) = PrimaryKey(b)
       /\ (CaseKey(a) = CaseKey(b) \/ LexLess(CaseKey(a), CaseKey(b)))

\* C16: filterAndSortTools returns a list with exactly the input tools whose
\* name does not begin with "mcp__", each as often as in the input, in
\* ascending (locale-aware) order of names; an absent input gives the empty
\* list, and the caller's list is as it was.
C16_CatalogueFilteredSortedCopy ==
    (sortedTools # NoCall) =>
        LET input == IF toolsArg = Undefined THEN <<>> ELSE toolsArg[1]
        IN  /\ sortedTools.status = "returned"
            /\ \A t \in Tools :
                    Occurrences(sortedTools.value, t) =
                        IF HasReservedPrefix(t.name) THEN 0
                        ELSE Occurrences(input, t)
            /\ \A i, j \in 1..Len(sortedTools.value) :
                    i < j => NameNotAfter(sortedTools.value[i].name,
                                          sortedTools.value[j].name)
            /\ sortedTools.argument = toolsArg

\* A list out of order with a reserved tool in it has been catalogued.
C16_Witness ==
    /\ sortedTools # NoCall
    /\ toolsArg # Undefined
    /\ Len(toolsArg[1]) = 3
    /\ toolsArg[1][1].name = <<"b">>
    /\ HasReservedPrefix(toolsArg[1][2].name)
    /\ toolsArg[1][3].name = <<"a">>
    /\ sortedTools.value # <<>>
    /\ sortedTools.value[1].name = <<"a">>

\* ------------------------------------- the formatter's contract, stated on
\* the lines of the document by position

RECURSIVE LinesFrom(_, _)
\* The lines of s from position a on, in order.
LinesFrom(s, a) ==
    LET ends == {j \in a..Len(s) : s[j] = "\n"}
    IN  IF ends = {} THEN <<SubSeq(s, a, Len(s))>>
        ELSE <<SubSeq(s, a, MinOf(ends) - 1)>> \o LinesFrom(s, MinOf(ends) + 1)

\* The lines of s, in order.
LinesOf(s) == LinesFrom(s, 1)

\* The positions of the lines of the document that read exactly as header.
LinesReading(lines, header) == {j \in 1..Len(lines) : lines[j] = header}

\* A line that starts with exactly two "#" and a space: a tool subheading.
IsSubheading(line) ==
    Len(line) >= 3 /\ line[1] = "#" /\ line[2] = "#" /\ line[3] = " "

\* The positions after the line at from that hold a tool subheading.
SubheadingsAfter(lines, from) ==
    {j \in (from + 1)..Len(lines) : IsSubheading(lines[j])}

\* The position of the k-th tool subheading after the line at from.
NthSubheading(lines, from, k) ==
    LET subs == SubheadingsAfter(lines, from)
    IN  CHOOSE j \in subs : Cardinality({i \in subs : i <= j}) = k

\* The positions of the rules that separate two subsections: a line "---"
\* with a blank line on each side and a tool subheading after it.
SeparatorsAfter(lines, from) ==
    {j \in (from + 2)..(Len(lines) - 2) :
        /\ lines[j] = <<"-", "-", "-">>
        /\ lines[j - 1] = <<>>
        /\ lines[j + 1] = <<>>
        /\ IsSubheading(lines[j + 2])}

\* C17: the document starts with the title line holding the version label,
\* then the release-date line, then the lines "# User Message",
\* "# System Prompt" and "# Tools", each once and in this order; after
\* "# Tools" there is one subheading per tool, in list order, with exactly
\* one separating rule before every subheading but the first (n - 1 in all),
\* and nothing but blank lines when the tool list is empty.
C17_DocumentLayout ==
    (output # NoCall) =>
        LET lines == LinesOf(output.value)
            n == Len(outputData.tools)
            um == LinesReading(lines, UserMessageHeader)
            sp == LinesReading(lines, SystemPromptHeader)
            th == LinesReading(lines, ToolsHeader)
        IN  /\ output.status = "returned"
            /\ lines[1] = TitlePrefix \o outputData.versionLabel
            /\ lines[3] = ReleaseDatePrefix \o outputData.releaseDate
            /\ Cardinality(um) = 1 /\ Cardinality(sp) = 1 /\ Cardinality(th) = 1
            /\ \A u \in um, p \in sp, t \in th :
                /\ 3 < u /\ u < p /\ p < t
                /\ Cardinality(SubheadingsAfter(lines, t)) = n
                /\ \A k \in 1..n :
                        LET j == NthSubheading(lines, t, k)
                        IN  /\ lines[j] = <<"#", "#", " ">>
                                            \o outputData.tools[k].name
                            /\ (k = 1) => j = t + 2
                            /\ (k > 1) => (j - 2) \in SeparatorsAfter(lines, t)
                /\ Cardinality(SeparatorsAfter(lines, t)) =
                        IF n = 0 THEN 0 ELSE n - 1
                /\ (n = 0) => \A j \in (t + 1)..Len(lines) : lines[j] = <<>>

\* A report with two tools, the first with a description that is itself a
\* rule line, has been formatted.
C17_Witness ==
    /\ output # NoCall
    /\ Len(outputData.tools) = 2
    /\ outputData.tools[1].description = <<"-", "-", "-">>
    /\ outputData.tools[1].name = <<"b">>
    /\ outputData.tools[2].name = <<"a">>

\* line with k more "#" in front when it is a header line, line otherwise.
Reindented(line, k) ==
    IF IsHeaderLine(line) THEN [i \in 1..k |-> "#"] \o line ELSE line

\* The lines of the document from position from on are the lines of s,
\* header lines with k more "#".
HoldsReindented(lines, from, s, k) ==
    LET original == LinesOf(s)
    IN  /\ from + Len(original) - 1 <= Len(lines)
        /\ \A i \in 1..Len(original) :
                lines[from + i - 1] = Reindented(original[i], k)

\* C18: in the document the lines of the user message and of the system
\* prompt follow their section header, header lines with exactly one more
\* "#"; the lines of each tool description follow the tool's subheading,
\* header lines with exactly two more "#"; the subheading is "## " and the
\* name, and the schema block follows the description as JSON.stringify
\* wrote it.
C18_ReindentOnceAndTwice ==
    (output # NoCall) =>
        LET lines == LinesOf(output.value)
            um == LinesReading(lines, UserMessageHeader)
            sp == LinesReading(lines, SystemPromptHeader)
            th == LinesReading(lines, ToolsHeader)
        IN  \A u \in um, p \in sp, t \in th :
                /\ HoldsReindented(lines, u + 2, outputData.userMessage, 1)
                /\ p = u + 2 + Len(LinesOf(outputData.userMessage)) + 1
                /\ HoldsReindented(lines, p + 2, outputData.systemPrompt, 1)
                /\ t = p + 2 + Len(LinesOf(outputData.systemPrompt)) + 1
                /\ \A k \in 1..Len(outputData.tools) :
                        LET tool == outputData.tools[k]
                            j == NthSubheading(lines, t, k)
                            d == Len(LinesOf(tool.description))
                        IN  /\ lines[j] = <<"#", "#", " ">> \o tool.name
                            /\ lines[j + 1] = <<>>
                            /\ HoldsReindented(lines, j + 2,
                                               tool.description, 2)
                            /\ HoldsReindented(lines, j + 2 + d,
                                    JsonStringifyPretty(tool.input_schema), 0)

\* A report with header lines in the user message, in the system prompt
\* and in a tool description has been formatted.
C18_Witness ==
    /\ output # NoCall
    /\ outputData.userMessage = <<"#", " ", "H", "\n", "b">>
    /\ outputData.systemPrompt = <<"#", " ", "H", "\n", "b">>
    /\ Len(outputData.tools) = 2
    /\ outputData.tools[2].description = <<"#", " ", "H", "\n", "b">>

\* ------------------------------------------- processVersion, end to end

\* The capture file holds the two pairs of the traced run, both not haiku,
\* both with tools and a system block, one with two tools and one with one.
TwoRecordCapture ==
    /\ Len(tracedPairs) = 2
    /\ logFile = Defined(CaptureText(tracedPairs, FALSE))
    /\ \A i \in 1..2 :
            /\ Qualifies(tracedPairs[i])
            /\ NonEmptyList(tracedPairs[i].tools)
            /\ NonEmptyList(tracedPairs[i].system)
    /\ {ToolListLength(tracedPairs[1]), ToolListLength(tracedPairs[2])} = {1, 2}

\* The pair of the capture that has two tools.
TwoToolPair ==
    CHOOSE pair \in {tracedPairs[1], tracedPairs[2]} : ToolListLength(pair) = 2

\* The title, the release date and the three section headers stand in the
\* document in this order, each section header once.
SectionsInOrder(lines) ==
    /\ SubSeq(lines[1], 1, Len(TitlePrefix)) = TitlePrefix
    /\ SubSeq(lines[3], 1, Len(ReleaseDatePrefix)) = ReleaseDatePrefix
    /\ \E u, p, t \in 4..Len(lines) :
            /\ u < p /\ p < t
            /\ LinesReading(lines, UserMessageHeader) = {u}
            /\ LinesReading(lines, SystemPromptHeader) = {p}
            /\ LinesReading(lines, ToolsHeader) = {t}

\* The number of tool subsections of the document.
ToolSubsections(lines) ==
    Cardinality(UNION {SubheadingsAfter(lines, t) :
                            t \in LinesReading(lines, ToolsHeader)})

\* The statement of C19 as the specification words it, with exactly one tool
\* subsection: the selected record has two tools.
C19_ExactlyOneToolSubsection ==
    (TwoRecordCapture /\ output # NoCall) =>
        /\ selected = ReturnedPair(TwoToolPair)
        /\ SectionsInOrder(LinesOf(output.value))
        /\ ToolSubsections(LinesOf(output.value)) = 1

\* C19: for a capture with two non-haiku records that both have tools and a
\* system block, one with two tools and one with one, the selector returns
\* the record with two tools whatever the order of the two, and the document
\* has the title, the release date, "# User Message", "# System Prompt" and
\* "# Tools" in this order, with one tool subsection for each tool of the
\* selected record whose name does not begin with "mcp__": two, or one when
\* one of the two tools is reserved.
C19_TwoToolRecordReported ==
    /\ (TwoRecordCapture /\ selected # NoCall) =>
            selected = ReturnedPair(TwoToolPair)
    /\ (TwoRecordCapture /\ output # NoCall) =>
            LET lines == LinesOf(output.value)
                listed == {i \in 1..2 :
                            ~HasReservedPrefix(TwoToolPair.tools[1][i].name)}
            IN  /\ SectionsInOrder(lines)
                /\ ToolSubsections(lines) = Cardinality(listed)

\* A run on a capture with the one-tool record first and the two-tool record,
\* none of its tools reserved, second has written its report.
C19_Witness ==
    /\ TwoRecordCapture
    /\ pc = "returned"
    /\ ToolListLength(tracedPairs[1]) = 1
    /\ ToolListLength(tracedPairs[2]) = 2
    /\ \A i \in 1..2 : ~HasReservedPrefix(tracedPairs[2].tools[1][i].name)
    /\ output # NoCall
    /\ outputFile = Defined(output.value)

\* C20: when the output file exists as processVersion starts, the one step
\* processVersion takes is to return normally: no temporary directory, no
\* download, patch, traced run or parse, the output file and every other
\* file as they were; and nothing is done after processVersion has returned.
C20_ExistingOutputSkipsPipeline ==
    [][/\ (pc = "start" /\ outputFile # Undefined) =>
            /\ pc' = "returned"
            /\ processResult' = [status |-> "returned"]
            /\ UNCHANGED <<outputFile, tmpDir, cwd, cliFile, logFile, steps,
                           tracedPairs, patcherVars, selectorVars, parserVars,
                           extractorVars, cataloguerVars, formatterVars>>
       /\ pc # "returned"]_vars

\* processVersion has returned without a step made, the report of the
\* previous run in place.
C20_Witness ==
    /\ pc = "returned"
    /\ processResult = [status |-> "returned"]
    /\ outputFile = Defined(<<"o", "l", "d">>)
    /\ steps = <<>>
    /\ tmpDir = "none"
    /\ data = NoCall

\* ------------------------------------------ processVersion, stage by stage

\* The steps processVersion has taken.
StepsTaken == {steps[i] : i \in DOMAIN steps}

\* The patcher throws on the script of the package.
PatcherThrows ==
    /\ IsDefined(cliFile)
    /\ patchCliVersionCheck(ValueOf(cliFile)).status = "thrown"

\* C22: when the patcher throws on the script of a version, processVersion
\* goes on to the traced run with the script as it was, unpatched.  The code
\* does not: the patcher's error leaves processVersion.
C22_StructureErrorProceedsUnpatched ==
    [][(pc = "patch" /\ PatcherThrows) =>
            (pc' = "trace" /\ cliFile' = cliFile)]_vars

\* C23: whenever the selector returns its record through the fallback (no
\* non-haiku record of the capture has both tools and a system block), the
\* warning has been given, and a run that returned has written its report.
\* The code warns only when the selected record has no tools.
C23_FallbackIsFlagged ==
    (/\ pc \in {"extract", "format", "write", "finally", "returned"}
     /\ selected # NoCall
     /\ selected.status = "returned"
     /\ PreferredIndices = {}) =>
        /\ "warn" \in StepsTaken
        /\ pc = "returned" => outputFile = Defined(output.value)

\* The place of a step in the order of the stages.
StageRank(step) ==
    CASE step = "createTempWorkDir" -> 1
      [] step = "downloadPackage" -> 2
      [] step = "tar" -> 3
      [] step = "patchCliVersionCheck" -> 4
      [] step = "exec" -> 5
      [] step = "parseJsonl" -> 6
      [] step = "selectBestRequest" -> 7
      [] step = "warn" -> 8
      [] step = "extract" -> 9
      [] step = "formatOutput" -> 10
      [] step = "writeFile" -> 11
      [] step = "cleanupTempDir" -> 12

\* The steps taken so far are in the order of the stages, and the result of
\* each stage was there when the next stage started.
StagesInOrder ==
    /\ \A i, j \in DOMAIN steps :
            i < j => StageRank(steps[i]) < StageRank(steps[j])
    /\ "exec" \in StepsTaken =>
            \/ customBinary /\ patchResult = NoCall
            \/ ~customBinary /\ patchResult # NoCall
                    /\ patchResult.status = "returned"
    /\ data # NoCall => "exec" \in StepsTaken
    /\ selected # NoCall => data # NoCall /\ data.status = "returned"
    /\ userMessage # NoCall => selected # NoCall /\ selected.status = "returned"
    /\ (userMessage # NoCall) = (systemPrompt # NoCall)
    /\ (userMessage # NoCall) = (sortedTools # NoCall)
    /\ output # NoCall => userMessage # NoCall
    /\ "writeFile" \in StepsTaken =>
            output # NoCall /\ outputFile = Defined(output.value)

\* A stage has failed: an error is on its way out of processVersion.
StageFailed == pc = "thrown" \/ pending.status = "thrown"

\* C25: within one run of processVersion the stages happen in one order
\* (the script patched or found without the marker before the traced run
\* starts, the capture parsed before the selection, the selection before the
\* extraction of user message and system prompt and the tool catalogue, the
\* formatting and the writing of the report last), and after a stage has
\* failed no stage is entered: the cleanup is all that happens.
C25_StagesInFixedOrder ==
    /\ []StagesInOrder
    /\ [][StageFailed =>
            /\ steps' \in {steps, Append(steps, "cleanupTempDir")}
            /\ UNCHANGED <<patcherVars, selectorVars, parserVars,
                           extractorVars, cataloguerVars, formatterVars,
                           outputFile, cliFile>>]_vars

\* A run has written its report with every stage done in its place.
C25_Witness ==
    /\ pc = "returned"
    /\ ~customBinary
    /\ steps = <<"createTempWorkDir", "downloadPackage", "tar",
                 "patchCliVersionCheck", "exec", "parseJsonl",
                 "selectBestRequest", "extract", "formatOutput", "writeFile",
                 "cleanupTempDir">>
    /\ patchResult.status = "returned" /\ patchResult.patched
    /\ outputFile = Defined(output.value)

\* C28: when processVersion has returned or thrown, no temporary directory it
\* created is left and the working directory is the original one.  The code
\* leaves the directory behind when the download, the unpacking, the lookup
\* of cli.js or the patch fails: these are before the try block.
C28_TempDirRemovedOnEveryExit ==
    pc \in {"returned", "thrown"} => (tmpDir # "exists" /\ cwd = "original")

PartNumber(part) ==
    CASE part = <<"0">> -> 0
      [] part = <<"9">> -> 9
      [] part = <<"1", "0">> -> 10

\* The major, minor and patch numbers of a version of VersionTexts.
NumbersOf(version) ==
    LET parts == CHOOSE t \in VersionParts \X VersionParts \X VersionParts :
                    version = t[1] \o <<".">> \o t[2] \o <<".">> \o t[3]
    IN  <<PartNumber(parts[1]), PartNumber(parts[2]), PartNumber(parts[3])>>

\* x is before y in the order by major, then minor, then patch number.
Precedes(x, y) ==
    \/ x[1] < y[1]
    \/ x[1] = y[1] /\ x[2] < y[2]
    \/ x[1] = y[1] /\ x[2] = y[2] /\ x[3] < y[3]

Sign(n) == IF n < 0 THEN -1 ELSE IF n > 0 THEN 1 ELSE 0

\* C26: compareVersions orders three-part numeric versions by major, then
\* minor, then patch number: it gives 0 exactly when the three numbers are
\* equal and a negative number exactly when a is before b, whatever the less
\* significant numbers are; the sign of compare(a, b) is the opposite of the
\* sign of compare(b, a); and the order is transitive.
C26_CompareVersionsIsLexicographic ==
    comparison # NoCall =>
        LET x == NumbersOf(versionArgs[1])
            y == NumbersOf(versionArgs[2])
        IN  /\ (comparison.ab = 0) = (x = y)
            /\ (comparison.ab < 0) = Precedes(x, y)
            /\ (comparison.ab > 0) = Precedes(y, x)
            /\ Sign(comparison.ab) = -Sign(comparison.ba)
            /\ (comparison.ab <= 0 /\ comparison.bc <= 0) => comparison.ac <= 0
            /\ (comparison.ab < 0 /\ comparison.bc <= 0) => comparison.ac < 0
            /\ (comparison.ab <= 0 /\ comparison.bc < 0) => comparison.ac < 0

\* 9.10.0 is found before 10.0.9 and this before 10.9.0: the number decides,
\* not the text, and the major number before the others.
C26_Witness ==
    /\ comparison # NoCall
    /\ versionArgs = <<<<"9", ".", "1", "0", ".", "0">>,
                       <<"1", "0", ".", "0", ".", "9">>,
                       <<"1", "0", ".", "9", ".", "0">>>>
    /\ comparison.ab < 0
    /\ comparison.bc < 0
    /\ comparison.ac < 0
    /\ comparison.ba > 0

\* ---------------------------------------- the patcher's contract, continued

\* C27: whenever the patcher returns patched = true, the first marker lies
\* between the opening brace it chose and the matching closing brace; and on
\* a text with exactly one marker the patched content holds no marker, so
\* that a second run on it returns patched = false with the same content.
\* The code never looks where the marker is relative to the braces: a
\* function that closes before the marker is patched all the same.
C27_PatchedFunctionHoldsMarker ==
    (patchRuns = 1 /\ patchResult.status = "returned" /\ patchResult.patched) =>
        LET a == Anatomy(cliContent)
        IN  /\ a.open < a.marker
            /\ a.marker < a.close
            /\ Cardinality(MarkerIndices(cliContent)) = 1 =>
                    /\ MarkerIndices(patchResult.content) = {}
                    /\ patchCliVersionCheck(patchResult.content) =
                          Returned(FALSE, patchResult.content, NotFoundMessage)

\* ------------------------------------- the formatter's contract, continued

\* The number of "#" a header line starts with, and 0 for every other line.
HeaderLevel(line) ==
    IF IsHeaderLine(line)
    THEN CHOOSE n \in 1..(Len(line) - 1) :
            /\ \A i \in 1..n : line[i] = "#"
            /\ line[n + 1] # "#"
    ELSE 0

\* No line break in the version label, the release date and the tool names.
LabelsOnOneLine(d) ==
    /\ \A i \in 1..Len(d.versionLabel) : d.versionLabel[i] # "\n"
    /\ \A i \in 1..Len(d.releaseDate) : d.releaseDate[i] # "\n"
    /\ \A k \in 1..Len(d.tools) :
            \A i \in 1..Len(d.tools[k].name) : d.tools[k].name[i] # "\n"

\* C30: when the version label, the release date and the tool names hold no
\* line break, the document has exactly four header lines with a single
\* "#": the title, "# User Message", "# System Prompt" and "# Tools", in
\* this order; the header lines between "# User Message" and "# Tools" that
\* come from the user message or the system prompt have two "#" or more;
\* after "# Tools" the header lines with exactly two "#" are the tool
\* subheadings, one per tool, and every other header line there, coming from
\* a description, has three "#" or more.
C30_ContentCannotForgeHeaders ==
    (output # NoCall /\ LabelsOnOneLine(outputData)) =>
        LET lines == LinesOf(output.value)
            n == Len(outputData.tools)
            level == [j \in 1..Len(lines) |-> HeaderLevel(lines[j])]
            top == {j \in 1..Len(lines) : level[j] = 1}
        IN  /\ Cardinality(top) = 4
            /\ \E u, p, t \in top :
                /\ 1 < u /\ u < p /\ p < t
                /\ top = {1, u, p, t}
                /\ lines[1] = TitlePrefix \o outputData.versionLabel
                /\ lines[u] = UserMessageHeader
                /\ lines[p] = SystemPromptHeader
                /\ lines[t] = ToolsHeader
                /\ \A j \in (u + 1)..(t - 1) :
                        j # p => (level[j] = 0 \/ level[j] >= 2)
                /\ LET second == {j \in (t + 1)..Len(lines) : level[j] = 2}
                   IN  /\ Cardinality(second) = n
                       /\ \A k \in 1..n :
                            NthSubheading(lines, t, k) \in second
                       /\ \A j \in (t + 1)..Len(lines) :
                            j \notin second => (level[j] = 0 \/ level[j] >= 3)

\* A report has been formatted whose user message reads "# Tools", whose
\* system prompt has a header line and whose one tool has the description
\* "## a".
C30_Witness ==
    /\ output # NoCall
    /\ outputData.userMessage = <<"#", " ", "T", "o", "o", "l", "s">>
    /\ outputData.systemPrompt = <<"#", " ", "H", "\n", "b">>
    /\ Len(outputData.tools) = 1
    /\ outputData.tools[1].description = <<"#", "#", " ", "a">>

\* ------------------------------------------------ main with --latest, stated
\* on the versions by their numbers

\* The published versions from start up to the latest one, by their numbers.
SelectedRange(start) ==
    LET latest == NumbersOf(PublishedVersions[1])
    IN  {PublishedVersions[i] : i \in
            {j \in DOMAIN PublishedVersions :
                /\ ~Precedes(NumbersOf(PublishedVersions[j]), NumbersOf(start))
                /\ ~Precedes(latest, NumbersOf(PublishedVersions[j]))}}

\* The versions main has reported as failed.
Reported == {reports[i] : i \in DOMAIN reports}

\* Every version before the one at index n has been attempted: it has
\* either been reported as failed, and has no output file, or has its
\* output file.
AttemptedBefore(n) ==
    /\ Reported \cup written = 1..(n - 1)
    /\ Reported \cap written = {}
    /\ Len(reports) = Cardinality(Reported)

\* C21: with --latest and no custom binary, the loop goes through every
\* published version from the start version to the latest one, in ascending
\* order; when processVersion throws for a version (no qualifying request
\* in its capture, say) the failure is reported for that version and the
\* loop goes on with a new processVersion call for the next version, or
\* completes after the last: it never ends the process, and at completion
\* every version of the range has been attempted.
C21_BatchContinuesAfterFailure ==
    /\ [][(mainPc = "main" /\ mainPc' \in {"batch", "completed"}) =>
            /\ {versions'[i] : i \in DOMAIN versions'}
                    = SelectedRange(versions[1])
            /\ \A i, j \in DOMAIN versions' :
                    i < j => Precedes(NumbersOf(versions'[i]),
                                      NumbersOf(versions'[j]))]_vars
    /\ [][(mainPc = "batch" /\ pc \in {"returned", "thrown"}) =>
            /\ reports' = IF pc = "thrown" THEN Append(reports, versionIndex)
                          ELSE reports
            /\ UNCHANGED versions
            /\ IF versionIndex < Len(versions)
               THEN /\ mainPc' = "batch"
                    /\ versionIndex' = versionIndex + 1
                    /\ pc' = "start"
                    /\ steps' = <<>>
                    /\ tmpDir' = "none"
                    /\ cwd' = "original"
                    /\ processResult' = NoCall
               ELSE mainPc' = "completed"]_vars
    /\ [](mainPc = "batch" =>
            /\ versionIndex \in 1..Len(versions)
            /\ AttemptedBefore(versionIndex))
    /\ []((mainPc = "completed" /\ ~customBinary) =>
            AttemptedBefore(Len(versions) + 1))

\* The loop has completed on two versions: the first was reported as failed
\* and the second has written its report after it.
C21_Witness ==
    /\ mainPc = "completed"
    /\ ~customBinary
    /\ versions = <<<<"0", ".", "9", ".", "0">>,
                    <<"0", ".", "1", "0", ".", "0">>>>
    /\ reports = <<1>>
    /\ written = {2}
    /\ pc = "returned"
    /\ "writeFile" \in StepsTaken
    /\ outputFile = Defined(output.value)

\* C24: with a custom binary nothing is downloaded or unpacked, the patcher
\* is never called and no step writes the file at the custom binary path,
\* whether processVersion returns or throws; and with --latest given as well
\* processVersion is called once, for the custom binary, and no version
\* range is gone through.
C24_CustomBinaryUsedDirectly ==
    /\ [](customBinary =>
            /\ StepsTaken \cap {"downloadPackage", "tar",
                                "patchCliVersionCheck"} = {}
            /\ patchRuns = 0
            /\ patchResult = NoCall
            /\ mainPc # "batch"
            /\ Len(versions) = 1
            /\ versionIndex <= 1
            /\ reports = <<>>)
    /\ [][customBinary => cliFile' = cliFile]_vars

\* With --latest and a custom binary whose script the patcher could patch,
\* the one run has written its report and the script is as it was.
C24_Witness ==
    /\ mainPc = "completed"
    /\ customBinary
    /\ fetchToLatest
    /\ cliFile = Defined(PatchableCli)
    /\ "exec" \in StepsTaken
    /\ pc = "returned"
    /\ outputFile = Defined(output.value)

====
